---- MODULE Spec2Model ----
(***************************************************************************)
(* A model of emoji-win's font conversion core                             *)
(* (src/converter/emoji_win): the CBDT/CBLC bitmap strike rewriter of      *)
(* bitmap_processor.py; the character-map normalizer, the metadata         *)
(* rewriters and the conversion pipeline of font_converter.py, called from *)
(* convert_command of cli.py; the diagnostics of font_diagnostics.py;      *)
(* TerminalCleanerV2 of terminal_cleaner_v2.py and TerminalCleaner of      *)
(* terminal_cleaner.py.                                                    *)
(*                                                                         *)
(* Encoded image bytes are modelled by what the code and the image library *)
(* observe of them: their length, whether Image.open decodes them, and the *)
(* decoded width, height, mode and palette-transparency flag.              *)
(***************************************************************************)
EXTENDS Integers, Sequences, FiniteSets, TLC

VARIABLES
    tables,            \* tags of the tables present in the font
    cblc,              \* font["CBLC"].strikes: sequence of strike records
    cbdt,              \* font["CBDT"]: [hasStrikeData, strikeData]
    glyphOrderOk,      \* font.getGlyphOrder() returns (FALSE: it raises)
    pc,                \* position inside fix_cbdt_cblc_sizes_for_directwrite
    i,                 \* strike index of the loop at line 45 (0-based)
    closest_size,      \* target size of the strike being rewritten
    processed_count,   \* glyphs visited in the current strike (line 150)
    bitmaps_resized,   \* glyphs resampled in the current strike (line 132)
    strikes_modified,  \* line 42
    result,            \* return value of the call: "none", "true", "false"
    run,               \* number of the current call on this font (1, 2, ...)
    cblc0,             \* history: cblc at entry of the current call
    cbdt0,             \* history: cbdt at entry of the current call
    sizes0,            \* history: declared sizes before the first call
    sizes1,            \* history: declared sizes when the first call returned
    targets,           \* history: per strike, the closest size chosen (0: none)
    strikeLog,         \* history: per strike, how the current call treated it
    outcomes,          \* history: per strike, the outcome of each glyph visited
    cmapTables,        \* font["cmap"].tables: sequence of subtables
    cmapIn,            \* history: cmapTables before normalization
    cmapPc,            \* "todo" before _ensure_windows_compatible_cmap, "done" after
    names,             \* font["name"].names: sequence of name records
    nextObj,           \* identity given to the next NameRecord() object
    nameCalls,         \* calls of _update_font_names made so far
    nameRaised,        \* _update_font_names raised KeyError
    names0,            \* history: names before the first call
    names1,            \* history: names when the first call returned
    os2,               \* font["OS/2"]: record of its fields
    os20,              \* history: os2 before the first call
    os2Calls,          \* calls of _update_os2_table made so far
    head,              \* font["head"]: [macStyle]
    headCalls,         \* calls of _update_head_table made so far
    post,              \* font["post"]: [formatType]
    postCalls,         \* calls of _update_post_table made so far
    convPc,            \* position inside convert_command / convert_apple_emoji_to_windows
    loadOk,            \* environment: TTFont(input_path) returns (FALSE: it raises)
    saveOk,            \* environment: font.save(output_path) returns (FALSE: it raises)
    verifyOk,          \* environment: the saved file reopens and has a maxp table
    loadAttempts,      \* history: times the input was loaded
    saveAttempts,      \* history: times font.save was called
    stepsRun,          \* history: the pipeline steps entered, in order
    bitmapResult,      \* `success` at line 110: "skipped", "true", "false"
    convResult,        \* outcome of the conversion: "none", "true", "false", "raised"
    exitCode,          \* return value of convert_command (-1: not returned)
    outputWritten,     \* history: font.save(output_path) returned
    diagStrikes,       \* font["CBLC"].strikes as the diagnostics probes them
    diagCbdt,          \* font["CBDT"] as the diagnostics probes it
    diagPc,            \* position inside diagnose_cbdt_cblc_directwrite_issues
    diagI,             \* strike index of the loop at line 32 (0-based)
    directwrite_issues,\* line 30: the issues collected so far
    diagRaised,        \* an exception has left the diagnostics
    diagCaught,        \* exceptions caught at line 80 so far
    diagReport,        \* history: per strike examined, what was reported of it
    diagStrikes0,      \* history: diagStrikes at entry
    diagCbdt0,         \* history: diagCbdt at entry
    lines_printed,     \* TerminalCleanerV2.lines_printed
    is_tracking,       \* TerminalCleanerV2.is_tracking
    original_stdout,   \* TerminalCleanerV2.original_stdout: None or a stream
    captured_output,   \* TerminalCleanerV2.captured_output: "None" or "StringIO"
    sys_stdout,        \* sys.stdout: the base stream inside some wrappers
    lastCall,          \* history: the method of the cleaner called last
    cleanerBefore,     \* history: the cleaner and sys.stdout before that call
    fellBack,          \* history: that call took the except branch of line 126
    printed,           \* history: print calls made by that call itself
    tracked,           \* history: newlines written and add_lines amounts while
                       \* tracking, since tracking last started or the count was reset
    saved_y,           \* TerminalCleaner.saved_y: None or a row
    saved_x,           \* TerminalCleaner.saved_x: None or a column
    cursor,            \* the terminal's cursor: [y, x]
    emitted,           \* history: what the last call printed, in order
    posCall,           \* history: the method of TerminalCleaner called last
    positioningFailed, \* history: a terminal operation raised in clear()'s try block
    posBefore,         \* history: saved_y, saved_x and cursor before that call
    \* -- the glyph loop of resize_strike_bitmaps taken in any order
    visitOrder,        \* history: the <<strike, glyph>> indexes visited, in order
    \* -- progress reporting (font_converter.py lines 32-34, 104-108)
    progress_callback, \* whether the caller gave a progress callback
    progressCalls      \* history: the (step, total) pairs the callback was given

bitmapVars == <<tables, cblc, cbdt, glyphOrderOk, pc, i, closest_size,
                processed_count, bitmaps_resized, strikes_modified, result, run,
                cblc0, cbdt0, sizes0, sizes1, targets, strikeLog, outcomes>>
cmapVars == <<cmapTables, cmapIn, cmapPc>>
metaVars == <<names, nextObj, nameCalls, nameRaised, names0, names1, os2, os20,
              os2Calls, head, headCalls, post, postCalls>>
convVars == <<convPc, loadOk, saveOk, verifyOk, loadAttempts, saveAttempts,
              stepsRun, bitmapResult, convResult, exitCode, outputWritten>>
diagVars == <<diagStrikes, diagCbdt, diagPc, diagI, directwrite_issues, diagRaised,
              diagCaught, diagReport, diagStrikes0, diagCbdt0>>
termVars == <<lines_printed, is_tracking, original_stdout, captured_output,
              sys_stdout, lastCall, cleanerBefore, fellBack, printed, tracked>>
posVars == <<saved_y, saved_x, cursor, emitted, posCall, positioningFailed,
             posBefore>>
ordVars == <<visitOrder>>
progVars == <<progress_callback, progressCalls>>
vars == <<bitmapVars, cmapVars, metaVars, convVars, diagVars, termVars, posVars,
          ordVars, progVars>>

\* What the actions of each part of the program leave alone.
notBitmapVars == <<progVars, ordVars, posVars, cmapVars, metaVars, convVars, diagVars,
                   termVars>>
notBitmapProgVars == <<ordVars, posVars, cmapVars, metaVars, convVars, diagVars,
                       termVars>>
notCmapVars == <<progVars, ordVars, posVars, bitmapVars, metaVars, convVars, diagVars,
                  termVars>>
notMetaVars == <<progVars, ordVars, posVars, bitmapVars, cmapVars, convVars, diagVars,
                  termVars>>
notConvVars == <<ordVars, posVars, diagVars, termVars>>
notDiagVars == <<progVars, ordVars, posVars, bitmapVars, cmapVars, metaVars, convVars,
                  termVars>>
notTermVars == <<progVars, ordVars, bitmapVars, cmapVars, metaVars, convVars, diagVars,
                  posVars>>
notPosVars == <<progVars, ordVars, bitmapVars, cmapVars, metaVars, convVars, diagVars,
                 termVars>>
notOrdVars == <<progVars, posVars, cmapVars, metaVars, convVars, diagVars, termVars>>

-----------------------------------------------------------------------------
(* Bounds of the model *)

MaxPpem == 140
MaxStrikes == 2
MaxGlyphs == 3
MaxRuns == 2
MaxSubtables == 3
MaxNames == 2
MaxDiagStrikes == 2
MaxWrappers == 3
MaxLines == 3
MaxRows == 3

-----------------------------------------------------------------------------
(* Arithmetic helpers *)

Max(a, b) == IF a >= b THEN a ELSE b
Abs(a) == IF a >= 0 THEN a ELSE -a

\* int(v * (num / den)) of lines 228-230: Python's int() truncates toward zero.
ScaleTrunc(v, num, den) ==
    IF v >= 0 THEN (v * num) \div den ELSE -(((-v) * num) \div den)

-----------------------------------------------------------------------------
(* Strike size classification, bitmap_processor.py lines 38, 63-67 *)

\* A faulty variant of directwrite_sizes: a list that lacks the size 20.
directwrite_sizes_without20 == <<16, 24, 32, 40, 48, 64, 96, 128>>

directwrite_sizes == <<16, 20, 24, 32, 40, 48, 64, 96, 128>>

\* A faulty variant of ClosestSize: a later candidate wins a tie.
ClosestSizeLastMin(current_max) ==
    LET best[k \in 1..Len(directwrite_sizes)] ==
            IF k = 1 THEN directwrite_sizes[1]
            ELSE IF Abs(directwrite_sizes[k] - current_max) <= Abs(best[k - 1] - current_max)
                 THEN directwrite_sizes[k]
                 ELSE best[k - 1]
    IN best[Len(directwrite_sizes)]

\* min(directwrite_sizes, key=lambda x: abs(x - current_max)): Python's min scans
\* the list in order and keeps the first element whose key is smallest.
ClosestSize(current_max) ==
    LET best[k \in 1..Len(directwrite_sizes)] ==
            IF k = 1 THEN directwrite_sizes[1]
            ELSE IF Abs(directwrite_sizes[k] - current_max) < Abs(best[k - 1] - current_max)
                 THEN directwrite_sizes[k]
                 ELSE best[k - 1]
    IN best[Len(directwrite_sizes)]

\* current_size of lines 52-56: a strike has one when it has a bitmapSizeTable
\* with ppemX and ppemY.
HasCurrentSize(strike) == strike.hasSize

CurrentMax(strike) == Max(strike.ppemX, strike.ppemY)

-----------------------------------------------------------------------------
(* Encoded images and glyph records *)

\* Absent or empty bytes (None, b""): falsy in every test the code makes.
NoBytes == [len |-> 0, dec |-> FALSE, w |-> 0, h |-> 0, mode |-> "none", transp |-> FALSE]

Image(len, w, h, mode, transp) ==
    [len |-> len, dec |-> TRUE, w |-> w, h |-> h, mode |-> mode, transp |-> transp]

\* Bytes of the given length that Image.open or resize rejects.
Junk(len) == [len |-> len, dec |-> FALSE, w |-> 0, h |-> 0, mode |-> "none", transp |-> FALSE]

\* bitmap_glyph.data: absent/empty (has = FALSE), or raw bytes in which
\* raw_data.find(b'\x89PNG') gives png_start (-1: not found) and
\* raw_data[png_start:] is tail.
NoRaw == [has |-> FALSE, png_start |-> -1, tail |-> NoBytes]
RawPng(offset, img) == [has |-> TRUE, png_start |-> offset, tail |-> img]
RawNoSig == [has |-> TRUE, png_start |-> -1, tail |-> NoBytes]

Glyph(decompOk, data, imageData) ==
    [decompOk |-> decompOk, data |-> data, imageData |-> imageData]

\* Lines 166-180: the PNG found in the raw data, else the imageData field.
GlyphBitmapData(bitmap_glyph) ==
    LET fromRaw == IF bitmap_glyph.data.has /\ bitmap_glyph.data.png_start >= 0
                   THEN bitmap_glyph.data.tail
                   ELSE NoBytes
    IN IF fromRaw.len > 0 THEN fromRaw ELSE bitmap_glyph.imageData

\* Line 270: the modes saved without conversion.
KeepsMode(image) ==
    image.mode \in {"RGBA", "LA"} \/ (image.mode = "P" /\ image.transp)

\* Lines 262-277: resize to new_size x new_size and encode as PNG.  Pillow's
\* resize keeps the mode; convert('RGBA') gives mode RGBA.  An encoded PNG is
\* never shorter than its 8-byte signature and three chunks (57 bytes).
Resampled(image, new_size) ==
    [len |-> 57 + new_size, dec |-> TRUE, w |-> new_size, h |-> new_size,
     mode |-> IF KeepsMode(image) THEN image.mode ELSE "RGBA",
     transp |-> IF KeepsMode(image) THEN image.transp ELSE FALSE]

\* A faulty variant of ResizeBitmapData: the "already the right size" test looks at
\* the width only.
ResizeBitmapDataWidthOnly(bitmap_data, new_size) ==
    IF bitmap_data.len < 10 THEN [data |-> NoBytes, opened |-> FALSE]
    ELSE IF ~bitmap_data.dec THEN [data |-> NoBytes, opened |-> TRUE]
    ELSE IF bitmap_data.w = new_size THEN [data |-> bitmap_data, opened |-> TRUE]
    ELSE [data |-> Resampled(bitmap_data, new_size), opened |-> TRUE]

\* resize_bitmap_data, lines 244-283.  data: the bytes returned (NoBytes for
\* None); opened: whether the bytes were handed to Image.open.
ResizeBitmapData(bitmap_data, new_size) ==
    IF bitmap_data.len < 10 THEN [data |-> NoBytes, opened |-> FALSE]
    ELSE IF ~bitmap_data.dec THEN [data |-> NoBytes, opened |-> TRUE]
    ELSE IF bitmap_data.w = new_size /\ bitmap_data.h = new_size
         THEN [data |-> bitmap_data, opened |-> TRUE]
    ELSE [data |-> Resampled(bitmap_data, new_size), opened |-> TRUE]

\* A faulty variant of ResizeGlyphStep: the result of resize_bitmap_data is stored
\* without the test of line 185.
ResizeGlyphStepUnchecked(bitmap_glyph, new_size) ==
    IF ~bitmap_glyph.decompOk
    THEN [glyph |-> bitmap_glyph, outcome |-> "raised", opened |-> FALSE]
    ELSE LET bitmap_data == GlyphBitmapData(bitmap_glyph) IN
         IF bitmap_data.len = 0
         THEN [glyph |-> bitmap_glyph, outcome |-> "noData", opened |-> FALSE]
         ELSE IF ~(bitmap_data.len > 10)
         THEN [glyph |-> bitmap_glyph, outcome |-> "tooSmall", opened |-> FALSE]
         ELSE LET r == ResizeBitmapData(bitmap_data, new_size) IN
              [glyph |-> [bitmap_glyph EXCEPT !.imageData = r.data],
               outcome |-> IF r.data.len > 0 THEN "resized" ELSE "failed",
               opened |-> r.opened]

\* One iteration of the loop at lines 151-194 on one glyph: the glyph
\* afterwards and what happened to it.
ResizeGlyphStep(bitmap_glyph, new_size) ==
    IF ~bitmap_glyph.decompOk
    THEN [glyph |-> bitmap_glyph, outcome |-> "raised", opened |-> FALSE]
    ELSE LET bitmap_data == GlyphBitmapData(bitmap_glyph) IN
         IF bitmap_data.len = 0
         THEN [glyph |-> bitmap_glyph, outcome |-> "noData", opened |-> FALSE]
         ELSE IF ~(bitmap_data.len > 10)
         THEN [glyph |-> bitmap_glyph, outcome |-> "tooSmall", opened |-> FALSE]
         ELSE LET r == ResizeBitmapData(bitmap_data, new_size) IN
              IF r.data.len > 0
              THEN [glyph |-> [bitmap_glyph EXCEPT !.imageData = r.data],
                    outcome |-> "resized", opened |-> r.opened]
              ELSE [glyph |-> bitmap_glyph, outcome |-> "failed", opened |-> r.opened]

-----------------------------------------------------------------------------
(* Strike records *)

Metrics(has, ascender, descender) ==
    [has |-> has, ascender |-> ascender, descender |-> descender]

\* ist: the strike's indexSubTables attribute: "none" (absent), "empty", "some".
Strike(hasSize, ppemX, ppemY, hori, vert, ist) ==
    [hasSize |-> hasSize, ppemX |-> ppemX, ppemY |-> ppemY,
     hori |-> hori, vert |-> vert, ist |-> ist]

\* A faulty variant of NoIndexSubTables: an empty list is not noticed.
NoIndexSubTablesAttrOnly(strike) == strike.ist = "none"

\* Line 128: not hasattr(strike, 'indexSubTables') or not strike.indexSubTables
NoIndexSubTables(strike) == strike.ist \in {"none", "empty"}

\* Lines 120-125 and 217-222: the declared size becomes new_size.
SetStrikeSize(strike, new_size) ==
    IF strike.hasSize
    THEN [strike EXCEPT !.ppemX = new_size, !.ppemY = new_size]
    ELSE strike

\* Lines 226-237: the scale factor is read from bst.ppemX, bst.ppemY after
\* lines 221-222 have assigned them.
ScaleMetrics(m, new_size, bst) ==
    IF ~m.has THEN m
    ELSE LET den == Max(bst.ppemX, bst.ppemY)
             num == IF den > 0 THEN new_size ELSE 1
             d == IF den > 0 THEN den ELSE 1
         IN [m EXCEPT !.ascender = ScaleTrunc(m.ascender, num, d),
                      !.descender = ScaleTrunc(m.descender, num, d)]

\* update_strike_size_metadata, lines 204-241.
UpdateStrikeSizeMetadata(strike, new_size) ==
    IF ~strike.hasSize THEN [strike |-> strike, ok |-> FALSE]
    ELSE LET bst == SetStrikeSize(strike, new_size) IN
         [strike |-> [bst EXCEPT !.hori = ScaleMetrics(bst.hori, new_size, bst),
                                 !.vert = ScaleMetrics(bst.vert, new_size, bst)],
          ok |-> TRUE]

Sizes(strikes) ==
    [k \in 1..Len(strikes) |->
        <<strikes[k].hasSize, strikes[k].ppemX, strikes[k].ppemY>>]

-----------------------------------------------------------------------------
(* fix_cbdt_cblc_sizes_for_directwrite, bitmap_processor.py lines 16-104 *)

NoLog(n) == [k \in 1..n |-> "pending"]

\* A progress value: the float num / den, kept exact.
Ratio(num, den) == [num |-> num, den |-> den]

\* font_converter.py lines 32-34, update_progress: the caller's callback, when
\* there is one, is given (step, total).
UpdateProgress(step, total) ==
    /\ progressCalls' = IF progress_callback
                        THEN Append(progressCalls, [step |-> step, total |-> total])
                        ELSE progressCalls
    /\ UNCHANGED progress_callback

\* font_converter.py lines 104-107, bitmap_progress_callback:
\* overall_progress = 8.5 + (current / total if total > 0 else 0) * 1.0
BitmapProgress(current, total) ==
    IF total > 0
    THEN Ratio(17 * current.den * total + 2 * current.num, 2 * current.den * total)
    ELSE Ratio(17, 2)

\* The progress_callback of fix_cbdt_cblc_sizes_for_directwrite is called
\* with (current, total): inside a conversion it is bitmap_progress_callback,
\* which calls update_progress(overall_progress, 10) (line 108); on its own
\* it is the caller's callback.
ProgressCallback(current, total) ==
    IF convPc = "bitmapRun"
    THEN UpdateProgress(BitmapProgress(current, total), 10)
    ELSE UpdateProgress(current, total)

\* Lines 30-43: the call starts; without CBDT or CBLC it returns False.
FixStart ==
    /\ pc = "idle"
    /\ cblc0' = cblc
    /\ cbdt0' = cbdt
    /\ targets' = [k \in 1..Len(cblc) |-> 0]
    /\ strikeLog' = NoLog(Len(cblc))
    /\ outcomes' = [k \in 1..Len(cblc) |-> <<>>]
    /\ i' = 0
    /\ strikes_modified' = 0
    /\ IF "CBDT" \notin tables \/ "CBLC" \notin tables
       THEN pc' = "done" /\ result' = "false"
       ELSE pc' = "loop" /\ result' = "none"
    /\ UNCHANGED <<tables, cblc, cbdt, glyphOrderOk, closest_size, processed_count,
                   bitmaps_resized, run, sizes0, sizes1, notBitmapVars>>

\* Lines 45-71: the size of strike i is read and its target chosen; a strike
\* without a size, or whose larger side is its own target, is passed over.
AnalyzeStrike ==
    /\ pc = "loop"
    /\ i < Len(cblc)
    /\ ProgressCallback(Ratio(i, 1), Len(cblc))
    /\ LET strike == cblc[i + 1] IN
       IF ~HasCurrentSize(strike)
       THEN /\ strikeLog' = [strikeLog EXCEPT ![i + 1] = "noSize"]
            /\ i' = i + 1
            /\ UNCHANGED <<pc, closest_size, targets>>
       ELSE LET current_max == CurrentMax(strike)
                closest == ClosestSize(current_max)
            IN /\ targets' = [targets EXCEPT ![i + 1] = closest]
               /\ IF current_max = closest
                  THEN /\ strikeLog' = [strikeLog EXCEPT ![i + 1] = "compatible"]
                       /\ i' = i + 1
                       /\ UNCHANGED <<pc, closest_size>>
                  ELSE /\ closest_size' = closest
                       /\ pc' = "resize"
                       /\ UNCHANGED <<i, strikeLog>>
    /\ UNCHANGED <<tables, cblc, cbdt, glyphOrderOk, processed_count, bitmaps_resized,
                   strikes_modified, result, run, cblc0, cbdt0, sizes0, sizes1, outcomes,
                   notBitmapProgVars>>

\* resize_strike_bitmaps up to its glyph loop, lines 107-147: the declared size
\* is rewritten first; then the strike's index sub-tables, the glyph order and
\* the strike data are looked up.  A False return leads to the metadata
\* fallback of line 89; an exception of getGlyphOrder (line 136, outside the
\* function's try) reaches the handler of line 96.
ResizeStrikeBegin ==
    /\ pc = "resize"
    /\ cblc' = [cblc EXCEPT ![i + 1] = SetStrikeSize(@, closest_size)]
    /\ processed_count' = 0
    /\ bitmaps_resized' = 0
    /\ IF NoIndexSubTables(cblc[i + 1])
       THEN pc' = "fallback" /\ UNCHANGED <<i, strikeLog>>
       ELSE IF ~glyphOrderOk
       THEN /\ pc' = "loop"
            /\ i' = i + 1
            /\ strikeLog' = [strikeLog EXCEPT ![i + 1] = "raised"]
       ELSE IF ~cbdt.hasStrikeData \/ i >= Len(cbdt.strikeData)
       THEN pc' = "fallback" /\ UNCHANGED <<i, strikeLog>>
       ELSE pc' = "glyphs" /\ UNCHANGED <<i, strikeLog>>
    /\ UNCHANGED <<tables, cbdt, glyphOrderOk, closest_size, strikes_modified, result,
                   run, cblc0, cbdt0, sizes0, sizes1, targets, outcomes, notBitmapVars>>

\* One iteration of the glyph loop, lines 151-194, in the order of the
\* strike-data dictionary.
ResizeGlyph ==
    /\ pc = "glyphs"
    /\ processed_count < Len(cbdt.strikeData[i + 1])
    /\ LET step == ResizeGlyphStep(cbdt.strikeData[i + 1][processed_count + 1],
                                   closest_size)
       IN /\ cbdt' = [cbdt EXCEPT !.strikeData[i + 1][processed_count + 1] = step.glyph]
          /\ bitmaps_resized' =
                IF step.outcome = "resized" THEN bitmaps_resized + 1 ELSE bitmaps_resized
          /\ outcomes' = [outcomes EXCEPT ![i + 1] =
                Append(@, [outcome |-> step.outcome, opened |-> step.opened])]
    /\ processed_count' = processed_count + 1
    /\ LET total_glyphs_in_strike == Len(cbdt.strikeData[i + 1]) IN
       IF processed_count' % 100 = 0 \/ processed_count' = total_glyphs_in_strike
       THEN ProgressCallback(Ratio(i * total_glyphs_in_strike + processed_count',
                                   total_glyphs_in_strike),
                             Len(cblc))
       ELSE UNCHANGED progVars
    /\ UNCHANGED <<tables, cblc, glyphOrderOk, pc, i, closest_size, strikes_modified,
                   result, run, cblc0, cbdt0, sizes0, sizes1, targets, strikeLog,
                   notBitmapProgVars>>

\* A faulty variant of ResizeEntry: an entry whose predecessor in the
\* dictionary already holds an image of the target size takes that image.
ResizeEntryReusingNeighbour(strike_data, g, new_size) ==
    LET step == ResizeGlyphStep(strike_data[g], new_size)
        reuse == /\ g > 1
                 /\ step.outcome = "resized"
                 /\ strike_data[g - 1].imageData.w = new_size
                 /\ strike_data[g - 1].imageData.h = new_size
    IN [data |-> [strike_data EXCEPT ![g] =
                     IF reuse
                     THEN [step.glyph EXCEPT !.imageData = strike_data[g - 1].imageData]
                     ELSE step.glyph],
        outcome |-> step.outcome, opened |-> step.opened]

\* The body of the loop, lines 160-194, on entry g of the strike data: it
\* reads bitmap_glyph and new_size and assigns bitmap_glyph.imageData only.
ResizeEntry(strike_data, g, new_size) ==
    LET step == ResizeGlyphStep(strike_data[g], new_size) IN
    [data |-> [strike_data EXCEPT ![g] = step.glyph],
     outcome |-> step.outcome, opened |-> step.opened]

\* The glyph indexes of strike k visited so far.
Visited(k) == {v[2] : v \in {visitOrder[n] : n \in 1..Len(visitOrder)} \cap ({k} \X Nat)}

\* One iteration of the glyph loop, lines 151-194, on any entry of the
\* strike-data dictionary not visited yet: the loop taken in another order.
ResizeGlyphAnyOrder ==
    /\ pc = "glyphs"
    /\ \E g \in 1..Len(cbdt.strikeData[i + 1]) :
          /\ g \notin Visited(i + 1)
          /\ LET step == ResizeEntry(cbdt.strikeData[i + 1], g, closest_size) IN
                /\ cbdt' = [cbdt EXCEPT !.strikeData[i + 1] = step.data]
                /\ bitmaps_resized' =
                      IF step.outcome = "resized" THEN bitmaps_resized + 1
                      ELSE bitmaps_resized
                /\ outcomes' = [outcomes EXCEPT ![i + 1] =
                      Append(@, [outcome |-> step.outcome, opened |-> step.opened])]
          /\ visitOrder' = Append(visitOrder, <<i + 1, g>>)
    /\ processed_count' = processed_count + 1
    /\ UNCHANGED <<tables, cblc, glyphOrderOk, pc, i, closest_size, strikes_modified,
                   result, run, cblc0, cbdt0, sizes0, sizes1, targets, strikeLog, notOrdVars>>

\* Lines 196-197 and 83-85: the glyph loop is over; the strike counts as
\* modified when a glyph was resampled, else the fallback of line 89 follows.
ResizeStrikeEnd ==
    /\ pc = "glyphs"
    /\ processed_count = Len(cbdt.strikeData[i + 1])
    /\ IF bitmaps_resized > 0
       THEN /\ strikes_modified' = strikes_modified + 1
            /\ strikeLog' = [strikeLog EXCEPT ![i + 1] = "resized"]
            /\ i' = i + 1
            /\ pc' = "loop"
       ELSE /\ pc' = "fallback"
            /\ UNCHANGED <<strikes_modified, strikeLog, i>>
    /\ UNCHANGED <<tables, cblc, cbdt, glyphOrderOk, closest_size, processed_count,
                   bitmaps_resized, result, run, cblc0, cbdt0, sizes0, sizes1, targets,
                   outcomes, notBitmapVars>>

\* Lines 86-94: update_strike_size_metadata on strike i.
MetadataFallback ==
    /\ pc = "fallback"
    /\ LET u == UpdateStrikeSizeMetadata(cblc[i + 1], closest_size) IN
          /\ cblc' = [cblc EXCEPT ![i + 1] = u.strike]
          /\ strikes_modified' = IF u.ok THEN strikes_modified + 1 ELSE strikes_modified
          /\ strikeLog' = [strikeLog EXCEPT ![i + 1] = IF u.ok THEN "metadata" ELSE "failed"]
    /\ i' = i + 1
    /\ pc' = "loop"
    /\ UNCHANGED <<tables, cbdt, glyphOrderOk, closest_size, processed_count,
                   bitmaps_resized, result, run, cblc0, cbdt0, sizes0, sizes1, targets,
                   outcomes, notBitmapVars>>

\* Lines 99-104: the call returns whether any strike was modified.
FixFinish ==
    /\ pc = "loop"
    /\ i = Len(cblc)
    /\ pc' = "done"
    /\ result' = IF strikes_modified > 0 THEN "true" ELSE "false"
    /\ sizes1' = IF run = 1 THEN Sizes(cblc) ELSE sizes1
    /\ UNCHANGED <<tables, cblc, cbdt, glyphOrderOk, i, closest_size, processed_count,
                   bitmaps_resized, strikes_modified, run, cblc0, cbdt0, sizes0, targets,
                   strikeLog, outcomes, notBitmapVars>>

\* The function is called again on the font it has rewritten.
FixAgain ==
    /\ pc = "done"
    /\ run < MaxRuns
    /\ run' = run + 1
    /\ pc' = "idle"
    /\ result' = "none"
    /\ UNCHANGED <<tables, cblc, cbdt, glyphOrderOk, i, closest_size, processed_count,
                   bitmaps_resized, strikes_modified, cblc0, cbdt0, sizes0, sizes1, targets,
                   strikeLog, outcomes, notBitmapVars>>

BitmapNext ==
    \/ FixStart
    \/ AnalyzeStrike
    \/ ResizeStrikeBegin
    \/ ResizeGlyph
    \/ ResizeStrikeEnd
    \/ MetadataFallback
    \/ FixFinish
    \/ FixAgain

-----------------------------------------------------------------------------
(* Character-map normalizer, font_converter.py lines 119-196 *)

Subtable(platformID, platEncID, format, cmap) ==
    [platformID |-> platformID, platEncID |-> platEncID, format |-> format,
     cmap |-> cmap]

\* Lines 128 and 130: the Windows BMP and Windows full-Unicode subtables.
IsBmp(subtable) == subtable.platformID = 3 /\ subtable.platEncID = 1
IsFull(subtable) == subtable.platformID = 3 /\ subtable.platEncID = 10

\* Lines 127-132: the flags and the subtable the scan ends with; the scan
\* overwrites unicode_full_subtable at every (3,10) subtable, so the last one
\* stays (0: none).
HasWindowsUnicodeBmp(cmap_tables) ==
    \E k \in 1..Len(cmap_tables) : IsBmp(cmap_tables[k])

UnicodeFullIndex(cmap_tables) ==
    LET full == {k \in 1..Len(cmap_tables) :
                    ~IsBmp(cmap_tables[k]) /\ IsFull(cmap_tables[k])}
    IN IF full = {} THEN 0 ELSE CHOOSE k \in full : \A j \in full : j <= k

\* A faulty variant of BmpCmap: the upper limit is exclusive.
BmpCmapExclusive(full_cmap) ==
    [codepoint \in {c \in DOMAIN full_cmap : 0 <= c /\ c < 65535} |->
        full_cmap[codepoint]]

\* Lines 146-152: the entries of the full-Unicode mapping with
\* 0x0000 <= codepoint <= 0xFFFF.
BmpCmap(full_cmap) ==
    [codepoint \in {c \in DOMAIN full_cmap : 0 <= c /\ c <= 65535} |->
        full_cmap[codepoint]]

\* list.insert(1, x), line 155.
InsertAt1(cmap_tables, subtable) ==
    IF Len(cmap_tables) = 0 THEN <<subtable>>
    ELSE <<cmap_tables[1], subtable>> \o Tail(cmap_tables)

\* _ensure_format12_cmap, lines 169-196: when no (3,10) subtable is Format 12
\* and the given one is not, a Format 12 copy of the given one is stored at the
\* index of the first (3,10) subtable of the list.
EnsureFormat12Cmap(cmap_tables, unicode_full_subtable) ==
    LET has_format12 == \E k \in 1..Len(cmap_tables) :
                            IsFull(cmap_tables[k]) /\ cmap_tables[k].format = 12
        firstFull == CHOOSE k \in 1..Len(cmap_tables) :
                        /\ IsFull(cmap_tables[k])
                        /\ \A j \in 1..(k - 1) : ~IsFull(cmap_tables[j])
    IN IF ~has_format12 /\ unicode_full_subtable.format # 12
       THEN [cmap_tables EXCEPT
                ![firstFull] = Subtable(3, 10, 12, unicode_full_subtable.cmap)]
       ELSE cmap_tables

\* _ensure_windows_compatible_cmap, lines 119-166.
EnsureWindowsCompatibleCmap(cmap_tables) ==
    LET full == UnicodeFullIndex(cmap_tables) IN
    IF ~HasWindowsUnicodeBmp(cmap_tables) /\ full # 0
    THEN LET unicode_full_subtable == cmap_tables[full]
             bmp_subtable == Subtable(3, 1, 4, BmpCmap(unicode_full_subtable.cmap))
         IN EnsureFormat12Cmap(InsertAt1(cmap_tables, bmp_subtable),
                               unicode_full_subtable)
    ELSE cmap_tables

\* Step 1 of the conversion (line 69): the cmap is normalized.
NormalizeCmap ==
    /\ cmapPc = "todo"
    /\ cmapTables' = EnsureWindowsCompatibleCmap(cmapTables)
    /\ cmapPc' = "done"
    /\ UNCHANGED <<cmapIn, notCmapVars>>

CmapNext == NormalizeCmap

-----------------------------------------------------------------------------
(* Metadata rewriters, font_converter.py lines 224-324 *)

\* Python's | and << on non-negative integers.
RECURSIVE BitOr(_, _)
BitOr(a, b) ==
    IF a = 0 THEN b
    ELSE IF b = 0 THEN a
    ELSE (IF a % 2 = 1 \/ b % 2 = 1 THEN 1 ELSE 0) + 2 * BitOr(a \div 2, b \div 2)

ShiftLeft(a, n) == a * (2 ^ n)

\* Bit b of x.
Bit(x, b) == (x \div (2 ^ b)) % 2

\* A NameRecord object; obj is the identity of the object.
NameRecord(obj, nameID, platformID, platEncID, langID, string) ==
    [obj |-> obj, nameID |-> nameID, platformID |-> platformID,
     platEncID |-> platEncID, langID |-> langID, string |-> string]

\* Lines 231-242.
windows_names ==
    << <<1, "Segoe UI Emoji">>, <<2, "Regular">>,
       <<3, "Microsoft:Segoe UI Emoji Regular:2023">>, <<4, "Segoe UI Emoji">>,
       <<5, "Version 1.00">>, <<6, "SegoeUIEmoji">>, <<16, "Segoe UI Emoji">>,
       <<17, "Regular">>, <<21, "Segoe UI Emoji">>, <<22, "Regular">> >>

\* Lines 245-249; 0x409 = 1033.
platforms == << <<3, 1, 1033>>, <<3, 10, 1033>>, <<1, 0, 0>> >>

\* Lines 251-259: one new record per platform (outer loop) and name (inner
\* loop); the k-th record created gets identity next + k.
NewNameRecords(next) ==
    [k \in 1..(Len(platforms) * Len(windows_names)) |->
        LET platform == platforms[((k - 1) \div Len(windows_names)) + 1]
            name == windows_names[((k - 1) % Len(windows_names)) + 1]
        IN NameRecord(next + k, name[1], platform[1], platform[2], platform[3],
                      name[2])]

\* A faulty variant of UpdateFontNames: the old records are not dropped.
UpdateFontNamesAppending(old_names, next) == old_names \o NewNameRecords(next)

\* _update_font_names, lines 228-259: the list is emptied, then filled.
UpdateFontNames(old_names, next) == <<>> \o NewNameRecords(next)

\* A faulty variant of UpdateOs2Table: the new flags are added to the old ones.
UpdateOs2TableKeepingFlags(table) ==
    [table EXCEPT !.fsSelection = BitOr(table.fsSelection, BitOr(64, ShiftLeft(1, 7)))]

\* _update_os2_table, lines 268-303: the fields of an OS/2 table after the
\* call; 0x20 = 32, 0x1F6FF = 128767.
UpdateOs2Table(table) ==
    [version |-> 4, usWeightClass |-> 400, usWidthClass |-> 5, fsType |-> 0,
     sFamilyClass |-> 0, sTypoAscender |-> 1069, sTypoDescender |-> -293,
     sTypoLineGap |-> 0,
     fsSelection |-> BitOr(64, ShiftLeft(1, 7)),
     usFirstCharIndex |-> 32, usLastCharIndex |-> 128767,
     ulUnicodeRange1 |-> BitOr(1, ShiftLeft(1, 25)),
     ulUnicodeRange2 |-> BitOr(BitOr(ShiftLeft(1, 57 - 32), ShiftLeft(1, 58 - 32)),
                               ShiftLeft(1, 59 - 32)),
     ulUnicodeRange3 |-> 0, ulUnicodeRange4 |-> 0,
     panose |-> [bFamilyType |-> 5, bSerifStyle |-> 0, bWeight |-> 5,
                 bProportion |-> 0, bContrast |-> 0, bStrokeVariation |-> 0,
                 bArmStyle |-> 0, bLetterform |-> 0, bMidline |-> 0,
                 bXHeight |-> 0]]

\* _update_font_names on the font: font["name"] at line 227 raises KeyError
\* when the font has no name table.
UpdateFontNamesStep ==
    /\ nameCalls' = nameCalls + 1
    /\ IF "name" \notin tables
       THEN /\ nameRaised' = TRUE
            /\ UNCHANGED <<names, nextObj, names1>>
       ELSE /\ names' = UpdateFontNames(names, nextObj)
            /\ nextObj' = nextObj + Len(platforms) * Len(windows_names)
            /\ names1' = IF nameCalls = 0 THEN names' ELSE names1
            /\ UNCHANGED nameRaised
    /\ UNCHANGED names0

\* _update_os2_table on the font, lines 264-308.
UpdateOs2TableStep ==
    /\ os2Calls' = os2Calls + 1
    /\ os2' = IF "OS/2" \in tables THEN UpdateOs2Table(os2) ELSE os2
    /\ UNCHANGED os20

\* _update_head_table on the font, lines 311-316.
UpdateHeadTableStep ==
    /\ headCalls' = headCalls + 1
    /\ head' = IF "head" \in tables THEN [head EXCEPT !.macStyle = 0] ELSE head

\* _update_post_table on the font, lines 319-324; formatType 3.0 is written 3.
UpdatePostTableStep ==
    /\ postCalls' = postCalls + 1
    /\ post' = IF "post" \in tables THEN [post EXCEPT !.formatType = 3] ELSE post

\* Each rewriter called on its own, at most MaxRuns times.
UpdateFontNamesCall ==
    /\ nameCalls < MaxRuns
    /\ ~nameRaised
    /\ UpdateFontNamesStep
    /\ UNCHANGED <<os2, os20, os2Calls, head, headCalls, post, postCalls, notMetaVars>>

UpdateOs2TableCall ==
    /\ os2Calls < MaxRuns
    /\ UpdateOs2TableStep
    /\ UNCHANGED <<names, nextObj, nameCalls, nameRaised, names0, names1, head,
                   headCalls, post, postCalls, notMetaVars>>

UpdateHeadTableCall ==
    /\ headCalls < MaxRuns
    /\ UpdateHeadTableStep
    /\ UNCHANGED <<names, nextObj, nameCalls, nameRaised, names0, names1, os2, os20,
                   os2Calls, post, postCalls, notMetaVars>>

UpdatePostTableCall ==
    /\ postCalls < MaxRuns
    /\ UpdatePostTableStep
    /\ UNCHANGED <<names, nextObj, nameCalls, nameRaised, names0, names1, os2, os20,
                   os2Calls, head, headCalls, notMetaVars>>

MetaNext ==
    \/ UpdateFontNamesCall
    \/ UpdateOs2TableCall
    \/ UpdateHeadTableCall
    \/ UpdatePostTableCall

-----------------------------------------------------------------------------
(* The conversion pipeline, font_converter.py lines 18-116 and 363-387, called
   from convert_command, cli.py lines 244-254 *)

\* A faulty variant of ConvertCommandExit: only a False return is a failure.
ConvertCommandExitOnFalseOnly(outcome) == IF outcome = "false" THEN 1 ELSE 0

\* cli.py lines 244-254: the exit code for the outcome of the conversion.
ConvertCommandExit(outcome) == IF outcome = "true" THEN 0 ELSE 1

\* _save_font, lines 366-387: True when the save and the verification of the
\* saved file both return, False when either raises.
SaveFont(save_ok, verify_ok) == IF save_ok /\ verify_ok THEN "true" ELSE "false"

\* What a pipeline step leaves alone besides the tables it rewrites.
convEnv == <<loadOk, saveOk, verifyOk, outputWritten>>

\* Lines 37, 68, 72, 76, 80, 84, 88, 92, 96, 101 and 115: the step value each
\* step of the pipeline passes to update_progress before it runs.
StepProgress(step) ==
    CASE step = "load" -> Ratio(1, 1)
      [] step = "cmap" -> Ratio(2, 1)
      [] step = "color" -> Ratio(3, 1)
      [] step = "essential" -> Ratio(4, 1)
      [] step = "names" -> Ratio(5, 1)
      [] step = "os2" -> Ratio(6, 1)
      [] step = "head" -> Ratio(7, 1)
      [] step = "post" -> Ratio(8, 1)
      [] step = "verify" -> Ratio(8, 1)
      [] step = "bitmap" -> Ratio(9, 1)
      [] step = "save" -> Ratio(19, 2)

\* The step is entered; it returns and the pipeline moves on to `next`.
StepReturns(step, next) ==
    /\ UpdateProgress(StepProgress(step), 10)
    /\ stepsRun' = Append(stepsRun, step)
    /\ convPc' = next
    /\ UNCHANGED <<convEnv, loadAttempts, saveAttempts, bitmapResult, convResult,
                   exitCode>>

\* The step is entered; it raises, and so does convert_apple_emoji_to_windows.
StepRaises(step) ==
    /\ UpdateProgress(StepProgress(step), 10)
    /\ stepsRun' = Append(stepsRun, step)
    /\ convPc' = "ended"
    /\ convResult' = "raised"
    /\ UNCHANGED <<convEnv, loadAttempts, saveAttempts, bitmapResult, exitCode>>

\* Line 38: the font is loaded; TTFont raising ends the conversion.
ConvLoad ==
    /\ convPc = "start"
    /\ UpdateProgress(StepProgress("load"), 10)
    /\ stepsRun' = Append(stepsRun, "load")
    /\ loadAttempts' = loadAttempts + 1
    /\ IF loadOk
       THEN convPc' = "cmap" /\ UNCHANGED convResult
       ELSE convPc' = "ended" /\ convResult' = "raised"
    /\ UNCHANGED <<convEnv, saveAttempts, bitmapResult, exitCode, bitmapVars,
                   cmapVars, metaVars, notConvVars>>

\* Line 69: step 1; font["cmap"] at line 122 raises KeyError without a cmap.
ConvCmap ==
    /\ convPc = "cmap"
    /\ IF "cmap" \in tables
       THEN /\ StepReturns("cmap", "color")
            /\ cmapTables' = EnsureWindowsCompatibleCmap(cmapTables)
            /\ cmapPc' = "done"
            /\ UNCHANGED cmapIn
       ELSE /\ StepRaises("cmap")
            /\ UNCHANGED cmapVars
    /\ UNCHANGED <<bitmapVars, metaVars, notConvVars>>

\* Lines 73, 77 and 97: steps 2, 3 and 8 only test which tables are present
\* and log.
ConvInformational ==
    /\ \/ convPc = "color" /\ StepReturns("color", "essential")
       \/ convPc = "essential" /\ StepReturns("essential", "names")
       \/ convPc = "verify" /\ StepReturns("verify", "bitmap")
    /\ UNCHANGED <<bitmapVars, cmapVars, metaVars, notConvVars>>

\* Line 81: step 4.
ConvNames ==
    /\ convPc = "names"
    /\ UpdateFontNamesStep
    /\ IF "name" \in tables THEN StepReturns("names", "os2") ELSE StepRaises("names")
    /\ UNCHANGED <<os2, os20, os2Calls, head, headCalls, post, postCalls,
                   bitmapVars, cmapVars, notConvVars>>

\* Line 85: step 5.
ConvOs2 ==
    /\ convPc = "os2"
    /\ UpdateOs2TableStep
    /\ StepReturns("os2", "head")
    /\ UNCHANGED <<names, nextObj, nameCalls, nameRaised, names0, names1, head,
                   headCalls, post, postCalls, bitmapVars, cmapVars, notConvVars>>

\* Line 89: step 6.
ConvHead ==
    /\ convPc = "head"
    /\ UpdateHeadTableStep
    /\ StepReturns("head", "post")
    /\ UNCHANGED <<names, nextObj, nameCalls, nameRaised, names0, names1, os2, os20,
                   os2Calls, post, postCalls, bitmapVars, cmapVars, notConvVars>>

\* Line 93: step 7.
ConvPost ==
    /\ convPc = "post"
    /\ UpdatePostTableStep
    /\ StepReturns("post", "verify")
    /\ UNCHANGED <<names, nextObj, nameCalls, nameRaised, names0, names1, os2, os20,
                   os2Calls, head, headCalls, bitmapVars, cmapVars, notConvVars>>

\* Lines 100-110: step 9 calls the strike rewriter when the font has CBDT and
\* CBLC, and is skipped otherwise.
ConvBitmapCall ==
    /\ convPc = "bitmap"
    /\ IF "CBDT" \in tables /\ "CBLC" \in tables
       THEN StepReturns("bitmap", "bitmapRun")
       ELSE /\ convPc' = "save"
            /\ UNCHANGED <<convEnv, loadAttempts, saveAttempts, stepsRun,
                           bitmapResult, convResult, exitCode, progVars>>
    /\ UNCHANGED <<bitmapVars, cmapVars, metaVars, notConvVars>>

\* Line 110: the strike rewriter runs inside the conversion.
ConvBitmapRun ==
    /\ convPc = "bitmapRun"
    /\ \/ FixStart
       \/ AnalyzeStrike
       \/ ResizeStrikeBegin
       \/ ResizeGlyph
       \/ ResizeStrikeEnd
       \/ MetadataFallback
       \/ FixFinish

\* Lines 110-112: the rewriter has returned; a False result is only logged.
ConvBitmapReturn ==
    /\ convPc = "bitmapRun"
    /\ pc = "done"
    /\ bitmapResult' = result
    /\ convPc' = "save"
    /\ UNCHANGED <<convEnv, loadAttempts, saveAttempts, stepsRun, convResult,
                   exitCode, bitmapVars, cmapVars, metaVars, progVars, notConvVars>>

\* Lines 115-116: step 10; the result of _save_font is returned.
ConvSave ==
    /\ convPc = "save"
    /\ UpdateProgress(StepProgress("save"), 10)
    /\ stepsRun' = Append(stepsRun, "save")
    /\ saveAttempts' = saveAttempts + 1
    /\ outputWritten' = saveOk
    /\ convResult' = SaveFont(saveOk, verifyOk)
    /\ convPc' = "ended"
    /\ UNCHANGED <<loadOk, saveOk, verifyOk, loadAttempts, bitmapResult, exitCode,
                   bitmapVars, cmapVars, metaVars, notConvVars>>

\* cli.py lines 246-254: convert_command returns the exit code.
ConvertCommandReturn ==
    /\ convPc = "ended"
    /\ exitCode' = ConvertCommandExit(convResult)
    /\ convPc' = "exited"
    /\ UNCHANGED <<convEnv, loadAttempts, saveAttempts, stepsRun, bitmapResult,
                   convResult, bitmapVars, cmapVars, metaVars, progVars, notConvVars>>

ConvNext ==
    \/ ConvLoad
    \/ ConvCmap
    \/ ConvInformational
    \/ ConvNames
    \/ ConvOs2
    \/ ConvHead
    \/ ConvPost
    \/ ConvBitmapCall
    \/ ConvBitmapRun
    \/ ConvBitmapReturn
    \/ ConvSave
    \/ ConvertCommandReturn

-----------------------------------------------------------------------------
(* Diagnostics, font_diagnostics.py lines 13-167 *)

\* An attribute of an object: missing, holding None, or holding a number.
Absent == [has |-> FALSE, none |-> FALSE, v |-> 0]
AttrNone == [has |-> TRUE, none |-> TRUE, v |-> 0]
Attr(v) == [has |-> TRUE, none |-> FALSE, v |-> v]

\* An index sub-table: its imageFormat attribute, and whether it has both
\* firstGlyphIndex and lastGlyphIndex.
IndexSubTable(imageFormat, hasGlyphRange) ==
    [imageFormat |-> imageFormat, hasGlyphRange |-> hasGlyphRange]

\* A bitmapSizeTable attribute: missing, or a record with ppemX and ppemY.
NoBst == [has |-> FALSE, ppemX |-> Absent, ppemY |-> Absent]
Bst(ppemX, ppemY) == [has |-> TRUE, ppemX |-> ppemX, ppemY |-> ppemY]

\* An indexSubTables attribute: missing, or a list (possibly empty).
NoIst == [has |-> FALSE, subs |-> <<>>]
Ist(subs) == [has |-> TRUE, subs |-> subs]

\* A strike as the diagnostics sees it: the attributes it probes.
DiagStrike(imageFormat, ist, ppemX, ppemY, ppem, bst) ==
    [imageFormat |-> imageFormat, indexSubTables |-> ist, ppemX |-> ppemX,
     ppemY |-> ppemY, ppem |-> ppem, bitmapSizeTable |-> bst]

\* An entry of cbdt.strikeData: its `data` attribute is missing, None, or
\* bytes of a length that start with the PNG magic, the JPEG marker or neither.
StrikeData(hasData, isNone, len, magic) ==
    [hasData |-> hasData, isNone |-> isNone, len |-> len, magic |-> magic,
     first |-> "none"]

\* An entry of cbdt.strikeData as the CBDT table holds it (bitmap_processor.py
\* line 144): a dictionary of glyph name -> bitmap glyph, which has no `data`
\* attribute; first: what the raw payload of its first glyph starts with.
GlyphDict(first) ==
    [hasData |-> FALSE, isNone |-> FALSE, len |-> 0, magic |-> "other",
     first |-> first]

\* bool(strike.indexSubTables) after hasattr, lines 47, 57 and 135.
HasIndexSubTables(strike) ==
    strike.indexSubTables.has /\ Len(strike.indexSubTables.subs) > 0

\* Lines 48-54: the first index sub-table that has an imageFormat (0: none).
FirstSubTableWithFormat(subs) ==
    IF \E j \in 1..Len(subs) : subs[j].imageFormat.has
    THEN CHOOSE j \in 1..Len(subs) :
            /\ subs[j].imageFormat.has
            /\ \A h \in 1..(j - 1) : ~subs[h].imageFormat.has
    ELSE 0

\* Lines 58-81, method 3, in the try block: the format read from the first
\* bytes of strike i's data; len(None) raises TypeError, which line 80 catches.
SniffFormat(strike, cbdtTable, idx) ==
    LET first_subtable == strike.indexSubTables.subs[1]
        notFound == [found |-> FALSE, format |-> Absent, caught |-> FALSE,
                     raised |-> FALSE]
    IN IF ~first_subtable.hasGlyphRange THEN notFound
       ELSE IF ~(cbdtTable.hasStrikeData /\ idx < Len(cbdtTable.strikeData))
       THEN notFound
       ELSE LET strike_data == cbdtTable.strikeData[idx + 1] IN
            IF ~strike_data.hasData THEN notFound
            ELSE IF strike_data.isNone
            THEN [notFound EXCEPT !.caught = TRUE]
            ELSE IF ~(strike_data.len > 8) THEN notFound
            ELSE IF strike_data.magic = "png"
            THEN [notFound EXCEPT !.found = TRUE, !.format = Attr(17)]
            ELSE IF strike_data.magic = "jpeg"
            THEN [notFound EXCEPT !.found = TRUE, !.format = Attr(18)]
            ELSE notFound

\* A faulty variant of ImageFormatProbe: method 3 runs outside the try block.
ImageFormatProbeUnguarded(strike, cbdtTable, idx) ==
    LET sniffed == SniffFormat(strike, cbdtTable, idx) IN
    IF strike.imageFormat.has
    THEN [found |-> TRUE, format |-> strike.imageFormat, method |-> 1,
          caught |-> FALSE, raised |-> FALSE]
    ELSE IF HasIndexSubTables(strike)
            /\ FirstSubTableWithFormat(strike.indexSubTables.subs) # 0
    THEN [found |-> TRUE,
          format |-> strike.indexSubTables.subs[
                        FirstSubTableWithFormat(strike.indexSubTables.subs)].imageFormat,
          method |-> 2, caught |-> FALSE, raised |-> FALSE]
    ELSE IF HasIndexSubTables(strike)
    THEN [found |-> sniffed.found, format |-> sniffed.format, method |-> 3,
          caught |-> FALSE, raised |-> sniffed.caught]
    ELSE [found |-> FALSE, format |-> Absent, method |-> 0, caught |-> FALSE,
          raised |-> FALSE]

\* Lines 38-81: the three probes for the image format of strike idx.
ImageFormatProbe(strike, cbdtTable, idx) ==
    LET sniffed == SniffFormat(strike, cbdtTable, idx) IN
    IF strike.imageFormat.has
    THEN [found |-> TRUE, format |-> strike.imageFormat, method |-> 1,
          caught |-> FALSE, raised |-> FALSE]
    ELSE IF HasIndexSubTables(strike)
            /\ FirstSubTableWithFormat(strike.indexSubTables.subs) # 0
    THEN [found |-> TRUE,
          format |-> strike.indexSubTables.subs[
                        FirstSubTableWithFormat(strike.indexSubTables.subs)].imageFormat,
          method |-> 2, caught |-> FALSE, raised |-> FALSE]
    ELSE IF HasIndexSubTables(strike)
    THEN [found |-> sniffed.found, format |-> sniffed.format, method |-> 3,
          caught |-> sniffed.caught, raised |-> FALSE]
    ELSE [found |-> FALSE, format |-> Absent, method |-> 0, caught |-> FALSE,
          raised |-> FALSE]

\* Lines 98-116: the three probes for the declared size.
SizeProbe(strike) ==
    IF strike.ppemX.has /\ strike.ppemY.has
    THEN [found |-> TRUE, size_x |-> strike.ppemX.v, size_y |-> strike.ppemY.v]
    ELSE IF strike.ppem.has
    THEN [found |-> TRUE, size_x |-> strike.ppem.v, size_y |-> strike.ppem.v]
    ELSE IF strike.bitmapSizeTable.has
            /\ strike.bitmapSizeTable.ppemX.has /\ strike.bitmapSizeTable.ppemY.has
    THEN [found |-> TRUE, size_x |-> strike.bitmapSizeTable.ppemX.v,
          size_y |-> strike.bitmapSizeTable.ppemY.v]
    ELSE [found |-> FALSE, size_x |-> 0, size_y |-> 0]

\* Line 122.
preferred_sizes == <<16, 20, 24, 32, 40, 48, 64, 96, 128>>

InList(v, list) == \E k \in 1..Len(list) : list[k] = v

Issue(idx, kind) == [strike |-> idx, kind |-> kind]

\* Lines 83-96: what is reported of the format, and the issue appended.
FormatFindings(probe, idx) ==
    IF probe.found /\ ~probe.format.none
    THEN IF probe.format.v # 17
         THEN [report |-> "other", issues |-> <<Issue(idx, "format mismatch")>>]
         ELSE [report |-> "png", issues |-> <<>>]
    ELSE [report |-> "cannot determine",
          issues |-> <<Issue(idx, "format unknown")>>]

\* Lines 118-132: what is reported of the size, and the issue appended; a
\* size that cannot be determined is printed and no issue is appended.
SizeFindings(probe, idx) ==
    IF probe.found
    THEN IF ~InList(probe.size_x, preferred_sizes)
            \/ ~InList(probe.size_y, preferred_sizes)
         THEN [report |-> "unusual", issues |-> <<Issue(idx, "size unusual")>>]
         ELSE [report |-> "standard", issues |-> <<>>]
    ELSE [report |-> "cannot determine", issues |-> <<>>]

\* Lines 134-141: what is reported of the index sub-tables.
IndexFindings(strike, idx) ==
    IF HasIndexSubTables(strike)
    THEN [report |-> "present", issues |-> <<>>]
    ELSE [report |-> "missing", issues |-> <<Issue(idx, "index missing")>>]

\* Lines 20-30: without CBDT or CBLC the diagnostics returns at once.
DiagStart ==
    /\ diagPc = "idle"
    /\ diagPc' = IF "CBDT" \notin tables \/ "CBLC" \notin tables THEN "done" ELSE "loop"
    /\ diagI' = 0
    /\ directwrite_issues' = <<>>
    /\ UNCHANGED <<diagStrikes, diagCbdt, diagRaised, diagCaught, diagReport,
                   diagStrikes0, diagCbdt0, notDiagVars>>

\* Lines 32-141: strike diagI is examined.  Nothing is assigned to the font.
DiagnoseStrike ==
    /\ diagPc = "loop"
    /\ diagI < Len(diagStrikes)
    /\ LET strike == diagStrikes[diagI + 1]
           format == ImageFormatProbe(strike, diagCbdt, diagI)
           size == SizeProbe(strike)
           formatFound == FormatFindings(format, diagI)
           sizeFound == SizeFindings(size, diagI)
           indexFound == IndexFindings(strike, diagI)
       IN IF format.raised
          THEN /\ diagRaised' = TRUE
               /\ diagPc' = "done"
               /\ UNCHANGED <<diagI, directwrite_issues, diagCaught, diagReport>>
          ELSE /\ directwrite_issues' = directwrite_issues \o formatFound.issues
                                           \o sizeFound.issues \o indexFound.issues
               /\ diagReport' = Append(diagReport,
                                       [strike |-> diagI, method |-> format.method,
                                        value |-> format.format,
                                        format |-> formatFound.report,
                                        size |-> sizeFound.report,
                                        index |-> indexFound.report])
               /\ diagCaught' = diagCaught + (IF format.caught THEN 1 ELSE 0)
               /\ diagI' = diagI + 1
               /\ UNCHANGED <<diagPc, diagRaised>>
    /\ UNCHANGED <<diagStrikes, diagCbdt, diagStrikes0, diagCbdt0, notDiagVars>>

\* Lines 143-167: the summary lists directwrite_issues.
DiagSummary ==
    /\ diagPc = "loop"
    /\ diagI = Len(diagStrikes)
    /\ diagPc' = "done"
    /\ UNCHANGED <<diagStrikes, diagCbdt, diagI, directwrite_issues, diagRaised,
                   diagCaught, diagReport, diagStrikes0, diagCbdt0, notDiagVars>>

DiagNext ==
    \/ DiagStart
    \/ DiagnoseStrike
    \/ DiagSummary

-----------------------------------------------------------------------------
(* TerminalCleanerV2 and LineCountingWrapper, terminal_cleaner_v2.py lines
   43-186 *)

\* A stream is the stream sys.stdout was at first, inside some number of
\* LineCountingWrapper objects; NoStream is None.
NoStream == [none |-> TRUE, wrappers |-> 0]
Stream(wrappers) == [none |-> FALSE, wrappers |-> wrappers]

\* The cleaner's fields together with sys.stdout.
Cleaner(lines, tracking, original, captured, stdout) ==
    [lines_printed |-> lines, is_tracking |-> tracking, original_stdout |-> original,
     captured_output |-> captured, sys_stdout |-> stdout]

Current ==
    Cleaner(lines_printed, is_tracking, original_stdout, captured_output, sys_stdout)

\* start_tracking, lines 56-68: sys.stdout, whatever it is, is remembered and
\* wrapped.
StartTracking(c) ==
    Cleaner(0, TRUE, c.sys_stdout, "StringIO", Stream(c.sys_stdout.wrappers + 1))

\* stop_tracking, lines 70-80.
StopTracking(c) ==
    Cleaner(c.lines_printed, FALSE, NoStream, "None",
            IF ~c.original_stdout.none THEN c.original_stdout ELSE c.sys_stdout)

\* LineCountingWrapper.write, lines 171-179, on the stream `stream`: each
\* wrapper around the base stream adds the newlines while the cleaner tracks.
WriteNewlines(c, newline_count) ==
    IF c.is_tracking
    THEN [c EXCEPT !.lines_printed = @ + c.sys_stdout.wrappers * newline_count]
    ELSE c

\* add_lines, lines 82-90.
AddLines(c, count) ==
    IF c.is_tracking THEN [c EXCEPT !.lines_printed = @ + count] ELSE c

\* clear_tracked, lines 92-128; `fails` says that a terminal operation of
\* lines 105-113 raises.  The result holds the cleaner, the number of print
\* calls made and whether the except branch ran.
ClearTracked(c, fails) ==
    IF ~c.is_tracking \/ c.lines_printed = 0
    THEN [cleaner |-> c, printed |-> 0, fellBack |-> FALSE]
    ELSE LET was_tracking == c.is_tracking
             stopped == StopTracking(c)
             cleared == [stopped EXCEPT !.lines_printed = 0]
         IN IF fails
            THEN [cleaner |-> cleared, printed |-> 1, fellBack |-> TRUE]
            ELSE [cleaner |-> IF was_tracking THEN StartTracking(cleared) ELSE cleared,
                  printed |-> c.lines_printed + 2 * (c.lines_printed - 1),
                  fellBack |-> FALSE]

\* reset, lines 152-159.
Reset(c) == [StopTracking(c) EXCEPT !.lines_printed = 0]

\* The call `call` is made and leaves the cleaner as `c`.
Called(call, c, print_calls, fell_back) ==
    /\ lines_printed' = c.lines_printed
    /\ is_tracking' = c.is_tracking
    /\ original_stdout' = c.original_stdout
    /\ captured_output' = c.captured_output
    /\ sys_stdout' = c.sys_stdout
    /\ lastCall' = call
    /\ cleanerBefore' = Current
    /\ printed' = print_calls
    /\ fellBack' = fell_back
    /\ UNCHANGED notTermVars

\* The amount written or added while the cleaner `c` is in charge.
TrackedPlus(c, base, amount) == IF c.is_tracking THEN base + amount ELSE base

\* clear_tracked, line 99: the call goes past the early return.
ClearsSomething(c) == c.is_tracking /\ c.lines_printed # 0

CallStartTracking ==
    /\ sys_stdout.wrappers < MaxWrappers
    /\ Called("start_tracking", StartTracking(Current), 0, FALSE)
    /\ tracked' = 0

CallStopTracking ==
    /\ Called("stop_tracking", StopTracking(Current), 0, FALSE)
    /\ UNCHANGED tracked

\* The program prints text with one newline or none through sys.stdout.
PrintText ==
    /\ lines_printed + sys_stdout.wrappers <= MaxLines
    /\ \E newline_count \in 0..1 :
          /\ Called("print", WriteNewlines(Current, newline_count), 1, FALSE)
          /\ tracked' = TrackedPlus(Current, tracked, newline_count)

CallAddLines ==
    /\ lines_printed < MaxLines
    /\ Called("add_lines", AddLines(Current, 1), 0, FALSE)
    /\ tracked' = TrackedPlus(Current, tracked, 1)

CallClearTracked ==
    \E fails \in BOOLEAN :
        LET r == ClearTracked(Current, fails) IN
        /\ Called("clear_tracked", r.cleaner, r.printed, r.fellBack)
        /\ tracked' = IF ClearsSomething(Current) THEN 0 ELSE tracked

\* clear_and_redraw, lines 130-143: clear_tracked, then the draw function,
\* which prints one line.
CallClearAndRedraw ==
    \E fails \in BOOLEAN :
        LET r == ClearTracked(Current, fails) IN
        /\ Called("clear_and_redraw", WriteNewlines(r.cleaner, 1), r.printed,
                  r.fellBack)
        /\ tracked' = TrackedPlus(r.cleaner,
                                  IF ClearsSomething(Current) THEN 0 ELSE tracked, 1)

CallReset ==
    /\ Called("reset", Reset(Current), 0, FALSE)
    /\ tracked' = 0

TermNext ==
    \/ CallStartTracking
    \/ CallStopTracking
    \/ PrintText
    \/ CallAddLines
    \/ CallClearTracked
    \/ CallClearAndRedraw
    \/ CallReset

-----------------------------------------------------------------------------
(* TerminalCleaner, terminal_cleaner.py lines 43-130 *)

\* An Optional[int].
NoneInt == [none |-> TRUE, v |-> 0]
SomeInt(v) == [none |-> FALSE, v |-> v]

\* The cleaner's fields together with the terminal's cursor.
Position(y, x, at) == [saved_y |-> y, saved_x |-> x, cursor |-> at]

CurrentPosition == Position(saved_y, saved_x, cursor)

\* What print sends to the terminal.
MoveYX(y, x) == [op |-> "move_yx", y |-> y, x |-> x]
ClearEos == [op |-> "clear_eos", y |-> 0, x |-> 0]
ClearScreen == [op |-> "clear", y |-> 0, x |-> 0]

\* save_position, lines 54-64: get_location returns the cursor, or raises.
SavePosition(p, location_ok) ==
    IF location_ok
    THEN [p EXCEPT !.saved_y = SomeInt(p.cursor.y), !.saved_x = SomeInt(p.cursor.x)]
    ELSE [p EXCEPT !.saved_y = NoneInt, !.saved_x = NoneInt]

\* is_position_saved, lines 123-130.
IsPositionSaved(p) == ~p.saved_y.none /\ ~p.saved_x.none

\* A faulty variant of Clear: the saved position is dropped after clearing.
ClearForgetting(p, fail_at) ==
    IF p.saved_y.none \/ p.saved_x.none
    THEN [position |-> p, emitted |-> <<>>, failed |-> FALSE]
    ELSE LET move == MoveYX(p.saved_y.v, p.saved_x.v)
             ops == <<move, ClearEos, move>>
             there == [y |-> p.saved_y.v, x |-> p.saved_x.v]
         IN [position |-> [p EXCEPT !.cursor = there, !.saved_y = NoneInt,
                                    !.saved_x = NoneInt],
             emitted |-> ops, failed |-> FALSE]

\* clear, lines 66-95; fail_at is the terminal operation of lines 81-90 that
\* raises (0: none does).  What was printed before it stays printed, then
\* term.clear is printed, which homes the cursor.
Clear(p, fail_at) ==
    IF p.saved_y.none \/ p.saved_x.none
    THEN [position |-> p, emitted |-> <<>>, failed |-> FALSE]
    ELSE LET move == MoveYX(p.saved_y.v, p.saved_x.v)
             ops == <<move, ClearEos, move>>
             there == [y |-> p.saved_y.v, x |-> p.saved_x.v]
         IN IF fail_at = 0
            THEN [position |-> [p EXCEPT !.cursor = there], emitted |-> ops,
                  failed |-> FALSE]
            ELSE [position |-> [p EXCEPT !.cursor = [y |-> 0, x |-> 0]],
                  emitted |-> Append(SubSeq(ops, 1, fail_at - 1), ClearScreen),
                  failed |-> TRUE]

\* reset, lines 113-121.
ResetPosition(p) == [p EXCEPT !.saved_y = NoneInt, !.saved_x = NoneInt]

\* The draw function prints one line: the cursor goes to the next row.
DrawLine(p) == [p EXCEPT !.cursor = [y |-> p.cursor.y + 1, x |-> 0]]

\* The call `call` is made and leaves the cleaner and the cursor as `p`.
PosCalled(call, p, ops, failed) ==
    /\ saved_y' = p.saved_y
    /\ saved_x' = p.saved_x
    /\ cursor' = p.cursor
    /\ emitted' = ops
    /\ posCall' = call
    /\ positioningFailed' = failed
    /\ posBefore' = CurrentPosition
    /\ UNCHANGED notPosVars

CallSavePosition ==
    \E location_ok \in BOOLEAN :
        PosCalled("save_position", SavePosition(CurrentPosition, location_ok), <<>>,
                  FALSE)

\* The program prints a line.
PrintLine ==
    /\ cursor.y < MaxRows
    /\ PosCalled("print", DrawLine(CurrentPosition), <<>>, FALSE)

CallClear ==
    \E fail_at \in 0..3 :
        LET r == Clear(CurrentPosition, fail_at) IN
        PosCalled("clear", r.position, r.emitted, r.failed)

\* clear_and_redraw, lines 97-111: clear, save_position, then the draw
\* function, which prints one line.
CallPosClearAndRedraw ==
    \E fail_at \in 0..3 : \E location_ok \in BOOLEAN :
        LET r == Clear(CurrentPosition, fail_at) IN
        /\ r.position.cursor.y < MaxRows
        /\ PosCalled("clear_and_redraw",
                     DrawLine(SavePosition(r.position, location_ok)), r.emitted,
                     r.failed)

CallResetPosition ==
    PosCalled("reset", ResetPosition(CurrentPosition), <<>>, FALSE)

PosNext ==
    \/ CallSavePosition
    \/ PrintLine
    \/ CallClear
    \/ CallPosClearAndRedraw
    \/ CallResetPosition

-----------------------------------------------------------------------------
(* Initial states *)

NoMetrics == Metrics(FALSE, 0, 0)
HoriMetrics == Metrics(TRUE, 137, -37)
VertMetrics == Metrics(TRUE, 68, -68)

\* All sequences over S of length at most n.
SeqUpTo(S, n) == UNION {[1..k -> S] : k \in 0..n}

\* The bitmap variables of a font on which the rewriter has not been called.
BitmapStart(fontTables, strikes, cbdtTable, orderOk) ==
    /\ tables = fontTables
    /\ cblc = strikes
    /\ cbdt = cbdtTable
    /\ glyphOrderOk = orderOk
    /\ pc = "idle"
    /\ i = 0
    /\ closest_size = 0
    /\ processed_count = 0
    /\ bitmaps_resized = 0
    /\ strikes_modified = 0
    /\ result = "none"
    /\ run = 1
    /\ cblc0 = strikes
    /\ cbdt0 = cbdtTable
    /\ sizes0 = Sizes(strikes)
    /\ sizes1 = <<>>
    /\ targets = [k \in 1..Len(strikes) |-> 0]
    /\ strikeLog = NoLog(Len(strikes))
    /\ outcomes = [k \in 1..Len(strikes) |-> <<>>]

CmapStart(subtables) ==
    /\ cmapTables = subtables
    /\ cmapIn = subtables
    /\ cmapPc = "todo"

\* The metadata variables of a font on which no rewriter has been called; the
\* name records are the objects 1..Len(nameRecords).
MetaStart(nameRecords, os2Table, headTable, postTable) ==
    /\ names = nameRecords
    /\ nextObj = Len(nameRecords)
    /\ nameCalls = 0
    /\ nameRaised = FALSE
    /\ names0 = nameRecords
    /\ names1 = <<>>
    /\ os2 = os2Table
    /\ os20 = os2Table
    /\ os2Calls = 0
    /\ head = headTable
    /\ headCalls = 0
    /\ post = postTable
    /\ postCalls = 0

\* An OS/2 table as a source font carries it, with the given fsSelection.
SourceOs2(fsSelection) ==
    [version |-> 3, usWeightClass |-> 700, usWidthClass |-> 5, fsType |-> 8,
     sFamilyClass |-> 0, sTypoAscender |-> 950, sTypoDescender |-> -250,
     sTypoLineGap |-> 0, fsSelection |-> fsSelection,
     usFirstCharIndex |-> 0, usLastCharIndex |-> 65535,
     ulUnicodeRange1 |-> 3, ulUnicodeRange2 |-> 0,
     ulUnicodeRange3 |-> 0, ulUnicodeRange4 |-> 0,
     panose |-> [bFamilyType |-> 2, bSerifStyle |-> 0, bWeight |-> 8,
                 bProportion |-> 0, bContrast |-> 0, bStrokeVariation |-> 0,
                 bArmStyle |-> 0, bLetterform |-> 0, bMidline |-> 0,
                 bXHeight |-> 0]]

\* A conversion that has not started, in the given environment.
ConvStart(load_ok, save_ok, verify_ok) ==
    /\ convPc = "start"
    /\ loadOk = load_ok
    /\ saveOk = save_ok
    /\ verifyOk = verify_ok
    /\ loadAttempts = 0
    /\ saveAttempts = 0
    /\ stepsRun = <<>>
    /\ bitmapResult = "skipped"
    /\ convResult = "none"
    /\ exitCode = -1
    /\ outputWritten = FALSE

NoConv == ConvStart(TRUE, TRUE, TRUE)

\* The diagnostics not yet called on a font of the given strikes.
DiagStartState(strikes, cbdtTable) ==
    /\ diagStrikes = strikes
    /\ diagCbdt = cbdtTable
    /\ diagPc = "idle"
    /\ diagI = 0
    /\ directwrite_issues = <<>>
    /\ diagRaised = FALSE
    /\ diagCaught = 0
    /\ diagReport = <<>>
    /\ diagStrikes0 = strikes
    /\ diagCbdt0 = cbdtTable

NoDiag == DiagStartState(<<>>, [hasStrikeData |-> FALSE, strikeData |-> <<>>])

\* __init__, lines 43-54: a new cleaner; sys.stdout is the base stream.
NewCleaner ==
    /\ lines_printed = 0
    /\ is_tracking = FALSE
    /\ original_stdout = NoStream
    /\ captured_output = "None"
    /\ sys_stdout = Stream(0)
    /\ lastCall = "__init__"
    /\ cleanerBefore = Cleaner(0, FALSE, NoStream, "None", Stream(0))
    /\ fellBack = FALSE
    /\ printed = 0
    /\ tracked = 0
NoCmap == CmapStart(<<>>)
NoMeta == MetaStart(<<>>, SourceOs2(0), [macStyle |-> 0], [formatType |-> 2])
NoBitmaps == BitmapStart({"cmap"}, <<>>, [hasStrikeData |-> FALSE, strikeData |-> <<>>], TRUE)

\* TerminalCleaner.__init__, lines 43-52; the cursor is at the top left.
\* No glyph has been visited.
NoVisits == visitOrder = <<>>

\* No progress callback is given and none was called.
NoProgress == progress_callback = FALSE /\ progressCalls = <<>>

NewTerminalCleaner ==
    /\ saved_y = NoneInt
    /\ saved_x = NoneInt
    /\ cursor = [y |-> 0, x |-> 0]
    /\ emitted = <<>>
    /\ posCall = "__init__"
    /\ positioningFailed = FALSE
    /\ posBefore = Position(NoneInt, NoneInt, [y |-> 0, x |-> 0])

GoodGlyph == Glyph(TRUE, NoRaw, Image(200, 137, 137, "RGBA", FALSE))
TinyGlyph == Glyph(TRUE, NoRaw, Junk(5))

\* Glyph entries of the strike data: decoded-image fields of every mode the
\* resampler distinguishes, of the target's size and of other sizes; payloads
\* too short or corrupt; raw CBDT data with and without a PNG signature; a
\* glyph whose decompilation raises; a glyph without any data.
GlyphInputs ==
    { GoodGlyph,
      Glyph(TRUE, NoRaw, Image(300, 128, 128, "RGB", FALSE)),
      Glyph(TRUE, NoRaw, Image(300, 137, 137, "RGB", FALSE)),
      Glyph(TRUE, NoRaw, Image(150, 137, 100, "LA", FALSE)),
      Glyph(TRUE, NoRaw, Image(120, 100, 128, "P", TRUE)),
      Glyph(TRUE, NoRaw, Image(90, 128, 100, "L", FALSE)),
      TinyGlyph,
      Glyph(TRUE, NoRaw, Junk(10)),
      Glyph(TRUE, NoRaw, Junk(50)),
      Glyph(TRUE, RawPng(9, Image(200, 137, 137, "RGBA", FALSE)), NoBytes),
      Glyph(TRUE, RawNoSig, Image(110, 137, 137, "P", FALSE)),
      Glyph(FALSE, NoRaw, Image(200, 137, 137, "RGBA", FALSE)),
      Glyph(TRUE, NoRaw, NoBytes) }

\* One strike of a non-canonical size over every block of at most MaxGlyphs
\* glyph entries.
InitGlyphs ==
    /\ \E size \in {137, 18} : \E block \in SeqUpTo(GlyphInputs, MaxGlyphs) :
          BitmapStart({"CBDT", "CBLC"},
                      <<Strike(TRUE, size, size, HoriMetrics, NoMetrics, "some")>>,
                      [hasStrikeData |-> TRUE, strikeData |-> <<block>>], TRUE)
    /\ NoCmap
    /\ NoMeta
    /\ NoConv
    /\ NoDiag
    /\ NewCleaner
    /\ NewTerminalCleaner
    /\ NoVisits
    /\ NoProgress

\* One strike of every declared size up to MaxPpem x MaxPpem, with and without
\* index sub-tables.
InitSizes ==
    /\ \E x \in 0..MaxPpem : \E y \in 0..MaxPpem : \E ist \in {"empty", "some"} :
          BitmapStart({"CBDT", "CBLC"},
                      <<Strike(TRUE, x, y, HoriMetrics, NoMetrics, ist)>>,
                      [hasStrikeData |-> TRUE, strikeData |-> << <<GoodGlyph>> >>], TRUE)
    /\ NoCmap
    /\ NoMeta
    /\ NoConv
    /\ NoDiag
    /\ NewCleaner
    /\ NewTerminalCleaner
    /\ NoVisits
    /\ NoProgress

\* Strikes the rewriter passes over (no size record, a canonical size, a
\* non-square size whose larger side is canonical) and strikes it rewrites,
\* with and without index sub-tables and metric records.
StrikeInputs ==
    { Strike(FALSE, 0, 0, NoMetrics, NoMetrics, "some"),
      Strike(TRUE, 128, 128, HoriMetrics, VertMetrics, "some"),
      Strike(TRUE, 128, 18, HoriMetrics, NoMetrics, "some") }
    \cup
    { Strike(TRUE, 137, 137, m[1], m[2], ist) :
        m \in {<<NoMetrics, NoMetrics>>, <<HoriMetrics, NoMetrics>>,
               <<HoriMetrics, VertMetrics>>},
        ist \in {"none", "empty", "some"} }
    \cup
    { Strike(TRUE, 18, 137, HoriMetrics, VertMetrics, "some") }

BlockInputs == { <<>>, <<GoodGlyph>>, <<TinyGlyph>> }

\* The CBDT table of a font of n strikes: a strike-data block per strike, one
\* block short, or no strikeData attribute.
CbdtInputs(n) ==
    { [hasStrikeData |-> TRUE, strikeData |-> d] :
        d \in [1..n -> BlockInputs] \cup
              (IF n > 0 THEN {[k \in 1..(n - 1) |-> <<GoodGlyph>>]} ELSE {}) }
    \cup { [hasStrikeData |-> FALSE, strikeData |-> <<>>] }

\* Fonts of at most MaxStrikes strikes, and fonts lacking CBDT or CBLC.
InitStrikes ==
    /\ \/ \E n \in 0..MaxStrikes : \E strikes \in [1..n -> StrikeInputs] :
          \E cbdtTable \in CbdtInputs(n) : \E orderOk \in BOOLEAN :
             BitmapStart({"CBDT", "CBLC"}, strikes, cbdtTable, orderOk)
       \/ \E t \in {{}, {"CBDT"}, {"CBLC"}} :
             BitmapStart(t, <<>>, [hasStrikeData |-> FALSE, strikeData |-> <<>>], TRUE)
    /\ NoCmap
    /\ NoMeta
    /\ NoConv
    /\ NoDiag
    /\ NewCleaner
    /\ NewTerminalCleaner
    /\ NoVisits
    /\ NoProgress

\* Codepoint-to-glyph mappings: 0x41 = 65, 0xFFFF = 65535, 0x10000 = 65536,
\* 0x1F600 = 128512.
CmapInputs ==
    { <<>>,
      (65 :> "A") @@ (128512 :> "grin"),
      (65535 :> "last") @@ (65536 :> "next") @@ (65 :> "B") }

SubtableInputs ==
    { Subtable(3, 10, f, m) : f \in {12, 13}, m \in CmapInputs }
    \cup { Subtable(3, 10, 10, (65 :> "A") @@ (128512 :> "grin")),
           Subtable(3, 1, 4, (65 :> "A")),
           Subtable(3, 1, 4, <<>>),
           Subtable(0, 4, 12, (65 :> "A") @@ (128512 :> "grin")),
           Subtable(0, 3, 4, (65 :> "C")) }

InitCmap ==
    /\ \E subtables \in SeqUpTo(SubtableInputs, MaxSubtables) : CmapStart(subtables)
    /\ NoBitmaps
    /\ NoMeta
    /\ NoConv
    /\ NoDiag
    /\ NewCleaner
    /\ NewTerminalCleaner
    /\ NoVisits
    /\ NoProgress

\* Name records of a source font: Apple's names, a record the rewriter would
\* write itself, and a record of a nameID the rewriter does not write.  A table
\* may hold the same record twice.
NameInputs ==
    { <<4, 1, 0, 0, "Apple Color Emoji">>,
      <<1, 3, 1, 1033, "Segoe UI Emoji">>,
      <<25, 3, 1, 1033, "AppleColorEmoji">> }

\* fsSelection values: none, ITALIC (bit 0), BOLD (bit 5), REGULAR (bit 6),
\* REGULAR | USE_TYPO_METRICS, ITALIC | BOLD, bits 0-9 all set, all 16 bits set.
FsSelectionInputs == {0, 1, 32, 64, 192, 33, 1023, 65535}

\* The table sets of the metadata rewriters: all four tables, or one missing.
MetaTableInputs ==
    { {"name", "OS/2", "head", "post"} \ missing :
        missing \in {{}, {"name"}, {"OS/2"}, {"head"}, {"post"}} }

InitMeta ==
    /\ \E fontTables \in MetaTableInputs :
       \E old \in SeqUpTo(NameInputs, MaxNames) :
       \E fs \in FsSelectionInputs :
          /\ BitmapStart(fontTables, <<>>,
                         [hasStrikeData |-> FALSE, strikeData |-> <<>>], TRUE)
          /\ MetaStart(IF "name" \in fontTables
                       THEN [k \in 1..Len(old) |->
                               NameRecord(k, old[k][1], old[k][2], old[k][3],
                                          old[k][4], old[k][5])]
                       ELSE <<>>,
                       IF "OS/2" \in fontTables THEN SourceOs2(fs) ELSE SourceOs2(0),
                       [macStyle |-> 1], [formatType |-> 2])
    /\ NoCmap
    /\ NoConv
    /\ NoDiag
    /\ NewCleaner
    /\ NewTerminalCleaner
    /\ NoVisits
    /\ NoProgress

\* The table sets of the conversion: any of cmap, name, OS/2, head and post may
\* be missing; the font has both bitmap tables, CBDT alone, or neither.
ConvTableInputs ==
    { meta \cup bitmap :
        meta \in SUBSET {"cmap", "name", "OS/2", "head", "post"},
        bitmap \in {{}, {"CBDT"}, {"CBDT", "CBLC"}} }

\* The strikes of a converted font: none, one the rewriter resamples, one it
\* updates in its metadata only, one it passes over, and two strikes.
ConvStrikeInputs ==
    { <<>>,
      <<Strike(TRUE, 137, 137, HoriMetrics, VertMetrics, "some")>>,
      <<Strike(TRUE, 137, 137, HoriMetrics, VertMetrics, "empty")>>,
      <<Strike(TRUE, 128, 128, HoriMetrics, VertMetrics, "some")>>,
      <<Strike(TRUE, 137, 137, HoriMetrics, VertMetrics, "some"),
        Strike(TRUE, 18, 18, HoriMetrics, VertMetrics, "empty")>> }

InitConvert ==
    \E fontTables \in ConvTableInputs : \E strikes \in ConvStrikeInputs :
    \E load_ok \in BOOLEAN : \E save_ok \in BOOLEAN : \E verify_ok \in BOOLEAN :
       /\ IF {"CBDT", "CBLC"} \subseteq fontTables
          THEN BitmapStart(fontTables, strikes,
                           [hasStrikeData |-> TRUE,
                            strikeData |-> [k \in 1..Len(strikes) |-> <<GoodGlyph>>]],
                           TRUE)
          ELSE BitmapStart(fontTables, <<>>,
                           [hasStrikeData |-> FALSE, strikeData |-> <<>>], TRUE)
       /\ CmapStart(IF "cmap" \in fontTables
                    THEN <<Subtable(3, 10, 13, (65 :> "A") @@ (128512 :> "grin"))>>
                    ELSE <<>>)
       /\ MetaStart(IF "name" \in fontTables
                    THEN <<NameRecord(1, 1, 3, 1, 1033, "Apple Color Emoji")>>
                    ELSE <<>>,
                    SourceOs2(33), [macStyle |-> 1], [formatType |-> 2])
       /\ ConvStart(load_ok, save_ok, verify_ok)
       /\ NoDiag
       /\ NewCleaner
       /\ NewTerminalCleaner
       /\ NoVisits
       /\ progress_callback \in BOOLEAN
       /\ progressCalls = <<>>

\* Strikes as the diagnostics may meet them: a strike as the font library
\* builds it, a strike with none of the probed attributes, strikes that carry
\* the format or the size directly, a strike whose format is None, strikes
\* whose format only the data can tell, a strike whose size record is empty.
DiagStrikeInputs ==
    { DiagStrike(Absent, Ist(<<IndexSubTable(Attr(17), TRUE)>>), Absent, Absent,
                 Absent, Bst(Attr(128), Attr(128))),
      DiagStrike(Absent, NoIst, Absent, Absent, Absent, NoBst),
      DiagStrike(Attr(18), Ist(<<>>), Attr(137), Attr(137), Absent, NoBst),
      DiagStrike(AttrNone, Ist(<<IndexSubTable(Attr(17), TRUE)>>), Absent, Absent,
                 Attr(20), NoBst),
      DiagStrike(Absent, Ist(<<IndexSubTable(Absent, TRUE)>>), Absent, Absent,
                 Absent, Bst(Absent, Absent)),
      DiagStrike(Absent,
                 Ist(<<IndexSubTable(Absent, FALSE), IndexSubTable(Attr(18), TRUE)>>),
                 Attr(128), Absent, Absent, Bst(Attr(96), Attr(100))),
      DiagStrike(Absent, Ist(<<IndexSubTable(Absent, FALSE)>>), Absent, Absent,
                 Absent, Bst(Attr(64), Attr(64))) }

StrikeDataInputs ==
    { StrikeData(TRUE, FALSE, 200, "png"),
      StrikeData(TRUE, FALSE, 200, "jpeg"),
      StrikeData(TRUE, FALSE, 200, "other"),
      StrikeData(TRUE, FALSE, 8, "png"),
      StrikeData(TRUE, TRUE, 0, "other"),
      StrikeData(FALSE, FALSE, 0, "other"),
      GlyphDict("png"),
      GlyphDict("jpeg") }

\* The CBDT table of a font of n strikes, for the diagnostics: an entry per
\* strike, one entry short, or no strikeData attribute.
DiagCbdtInputs(n) ==
    { [hasStrikeData |-> TRUE, strikeData |-> d] :
        d \in [1..n -> StrikeDataInputs] \cup
              (IF n > 0 THEN {[k \in 1..(n - 1) |-> StrikeData(TRUE, FALSE, 200, "png")]}
               ELSE {}) }
    \cup { [hasStrikeData |-> FALSE, strikeData |-> <<>>] }

\* Fonts of at most MaxDiagStrikes strikes, and fonts lacking CBDT or CBLC.
InitDiag ==
    /\ \E fontTables \in {{"CBDT", "CBLC"}, {"CBDT"}, {}} :
          BitmapStart(fontTables, <<>>, [hasStrikeData |-> FALSE, strikeData |-> <<>>],
                      TRUE)
    /\ \E n \in 0..MaxDiagStrikes : \E strikes \in [1..n -> DiagStrikeInputs] :
       \E cbdtTable \in DiagCbdtInputs(n) : DiagStartState(strikes, cbdtTable)
    /\ NoCmap
    /\ NoMeta
    /\ NoConv
    /\ NewCleaner
    /\ NewTerminalCleaner
    /\ NoVisits
    /\ NoProgress

\* A new cleaner, on which the program calls the methods in any order.
InitTerm ==
    /\ NewCleaner
    /\ NewTerminalCleaner
    /\ NoVisits
    /\ NoProgress
    /\ NoBitmaps
    /\ NoCmap
    /\ NoMeta
    /\ NoConv
    /\ NoDiag

\* A new position cleaner on a terminal whose cursor is at the top left.
InitPos ==
    /\ NewTerminalCleaner
    /\ NoVisits
    /\ NoProgress
    /\ NewCleaner
    /\ NoBitmaps
    /\ NoCmap
    /\ NoMeta
    /\ NoConv
    /\ NoDiag

\* Glyph entries for the loop taken in any order: valid images of another size
\* and of the target's size, a payload too short, a corrupt one, raw CBDT data
\* holding a PNG, and a glyph whose decompilation raises.
OrderGlyphInputs ==
    { GoodGlyph,
      Glyph(TRUE, NoRaw, Image(300, 128, 128, "RGB", FALSE)),
      Glyph(TRUE, NoRaw, Image(120, 100, 128, "P", TRUE)),
      TinyGlyph,
      Glyph(TRUE, NoRaw, Junk(50)),
      Glyph(TRUE, RawPng(9, Image(200, 137, 137, "RGBA", FALSE)), NoBytes),
      Glyph(FALSE, NoRaw, Image(200, 137, 137, "RGBA", FALSE)) }

\* One strike at 137 over every block of at most MaxGlyphs glyph entries.
InitOrder ==
    /\ \E block \in SeqUpTo(OrderGlyphInputs, MaxGlyphs) :
          BitmapStart({"CBDT", "CBLC"},
                      <<Strike(TRUE, 137, 137, HoriMetrics, NoMetrics, "some")>>,
                      [hasStrikeData |-> TRUE, strikeData |-> <<block>>], TRUE)
    /\ NoVisits
    /\ NoProgress
    /\ NoCmap
    /\ NoMeta
    /\ NoConv
    /\ NoDiag
    /\ NewCleaner
    /\ NewTerminalCleaner

\* The strike rewriter with the glyph loop taken in every order.
OrderNext ==
    \/ FixStart
    \/ AnalyzeStrike
    \/ ResizeStrikeBegin
    \/ ResizeGlyphAnyOrder
    \/ ResizeStrikeEnd
    \/ MetadataFallback
    \/ FixFinish

-----------------------------------------------------------------------------
(* Specifications *)

\* The strike rewriter on fonts that vary in their strikes' structure.
SpecStrikes == InitStrikes /\ [][BitmapNext]_vars

\* The strike rewriter on one strike, over its glyph entries.
SpecGlyphs == InitGlyphs /\ [][BitmapNext]_vars

\* The strike rewriter on one strike, over its declared size.
SpecSizes == InitSizes /\ [][BitmapNext]_vars

\* The character-map normalizer.
SpecCmap == InitCmap /\ [][CmapNext]_vars

\* The metadata rewriters, each called on its own.
SpecMeta == InitMeta /\ [][MetaNext]_vars

\* One conversion, from convert_command's call to its return.
SpecConvert == InitConvert /\ [][ConvNext]_vars

\* The diagnostics, called once on a font.
SpecDiag == InitDiag /\ [][DiagNext]_vars

\* The terminal cleaner under every sequence of calls.
SpecTerm == InitTerm /\ [][TermNext]_vars

\* The position cleaner under every sequence of calls.
SpecPos == InitPos /\ [][PosNext]_vars

\* One strike whose glyph entries are processed in every order.
SpecOrder == InitOrder /\ [][OrderNext]_vars

-----------------------------------------------------------------------------
(* Properties of the bitmap strike rewriter *)

\* The canonical DirectWrite sizes of the specification.
CanonicalSizes == {16, 20, 24, 32, 40, 48, 64, 96, 128}

\* t is a canonical size nearest to m, the smaller one of two equally near.
NearestCanonical(t, m) ==
    /\ t \in CanonicalSizes
    /\ \A c \in CanonicalSizes :
          /\ Abs(t - m) <= Abs(c - m)
          /\ Abs(c - m) = Abs(t - m) => t <= c

\* The payload of a glyph entry: the PNG inside its raw data, else its
\* image-data field.  A valid entry decompiles and has a payload that decodes.
Payload(glyph) ==
    IF glyph.data.has /\ glyph.data.png_start >= 0 THEN glyph.data.tail
    ELSE glyph.imageData
ValidEntry(glyph) == glyph.decompOk /\ Payload(glyph).dec

\* The strikes whose glyph loop ran to its end in the current call.
LoopedStrikes == {k \in 1..Len(cblc) : strikeLog[k] \in {"resized", "metadata"}
                                       /\ Len(outcomes[k]) > 0}

\* C1: after fix_cbdt_cblc_sizes_for_directwrite returns, every strike that
\* has a size record declares a ppemX and a ppemY that are both canonical,
\* non-square strikes included.
C1_EverySizeCanonical ==
    (pc = "done" /\ {"CBDT", "CBLC"} \subseteq tables) =>
        \A k \in 1..Len(cblc) :
            cblc[k].hasSize =>
                cblc[k].ppemX \in CanonicalSizes /\ cblc[k].ppemY \in CanonicalSizes

\* C2: a strike that took the metadata-only update has ppemX = ppemY = target
\* and every present hori/vert ascender and descender equal to its old value
\* times target / max(old ppemX, old ppemY), rounded toward zero.
C2_MetadataUpdateScalesMetrics ==
    (pc = "done" /\ run = 1) =>
        \A k \in 1..Len(cblc) :
            (strikeLog[k] = "metadata" /\ CurrentMax(cblc0[k]) > 0) =>
                LET old == cblc0[k]
                    t == targets[k]
                    m == CurrentMax(old)
                IN /\ cblc[k].ppemX = t /\ cblc[k].ppemY = t
                   /\ old.hori.has =>
                        /\ cblc[k].hori.ascender = ScaleTrunc(old.hori.ascender, t, m)
                        /\ cblc[k].hori.descender = ScaleTrunc(old.hori.descender, t, m)
                   /\ old.vert.has =>
                        /\ cblc[k].vert.ascender = ScaleTrunc(old.vert.ascender, t, m)
                        /\ cblc[k].vert.descender = ScaleTrunc(old.vert.descender, t, m)

\* A strike of non-canonical size whose index sub-tables list is empty.
EmptyIndexStrike(k) ==
    /\ cblc0[k].hasSize
    /\ CurrentMax(cblc0[k]) \notin CanonicalSizes
    /\ cblc0[k].ist = "empty"

\* C3 as stated: such a strike falls through to the metadata-only update, and
\* the call reports success if another strike was modified and failure if the
\* strike was the only one.
C3_EmptyIndexOnlyStrikeFails ==
    (pc = "done" /\ run = 1) =>
        \A k \in 1..Len(cblc) :
            EmptyIndexStrike(k) =>
                /\ strikeLog[k] = "metadata"
                /\ (\E j \in 1..Len(cblc) :
                        j # k /\ strikeLog[j] \in {"resized", "metadata"})
                     => result = "true"
                /\ Len(cblc) = 1 => result = "false"

\* C3 (amended): a strike of non-canonical size whose index sub-tables list is
\* empty falls through to the metadata-only update, which succeeds and counts
\* the strike as modified, so the call reports success whether or not another
\* strike was modified, also when the strike is the only one.
C3_EmptyIndexStrikeSucceeds ==
    (pc = "done" /\ run = 1) =>
        \A k \in 1..Len(cblc) :
            EmptyIndexStrike(k) =>
                /\ strikeLog[k] = "metadata"
                /\ cblc[k].ppemX = targets[k] /\ cblc[k].ppemY = targets[k]
                /\ result = "true"

C3_Witness ==
    /\ pc = "done" /\ run = 1
    /\ Len(cblc) = 1
    /\ EmptyIndexStrike(1)
    /\ strikeLog[1] = "metadata"
    /\ result = "true"

\* C4: a glyph-level failure never aborts its strike: every entry is visited,
\* every valid entry is resampled to the target size, every invalid one is
\* skipped with its record unchanged, and a strike with at least one valid
\* entry ends resized at its target size with the call returning true.
C4_GlyphFailuresDoNotAbortStrike ==
    (pc = "done" /\ run = 1) =>
        \A k \in LoopedStrikes :
            LET before == cbdt0.strikeData[k]
                after == cbdt.strikeData[k]
                t == targets[k]
            IN /\ Len(outcomes[k]) = Len(before)
               /\ \A g \in 1..Len(before) :
                     IF ValidEntry(before[g])
                     THEN /\ outcomes[k][g].outcome = "resized"
                          /\ after[g].imageData.dec
                          /\ after[g].imageData.w = t /\ after[g].imageData.h = t
                     ELSE /\ outcomes[k][g].outcome # "resized"
                          /\ after[g] = before[g]
               /\ (\E g \in 1..Len(before) : ValidEntry(before[g])) =>
                     /\ strikeLog[k] = "resized"
                     /\ cblc[k].ppemX = t /\ cblc[k].ppemY = t
                     /\ result = "true"

\* One strike at 137 with two valid PNG glyphs and one 5-byte glyph ends at
\* 128 x 128 with two glyphs resampled, one skipped, and the call returning true.
C4_Witness ==
    /\ pc = "done" /\ run = 1
    /\ Len(cblc) = 1
    /\ cblc0[1].ppemX = 137 /\ cblc0[1].ppemY = 137
    /\ cbdt0.strikeData[1] = <<GoodGlyph, TinyGlyph, GoodGlyph>>
    /\ cblc[1].ppemX = 128 /\ cblc[1].ppemY = 128
    /\ Cardinality({g \in 1..3 : outcomes[1][g].outcome = "resized"}) = 2
    /\ outcomes[1][2].outcome = "tooSmall"
    /\ cbdt.strikeData[1][2] = TinyGlyph
    /\ cbdt.strikeData[1][1].imageData.w = 128
    /\ result = "true"

\* C5: the target chosen for a strike is the canonical size nearest to
\* max(ppemX, ppemY), the smaller one when two are equally near.
C5_TargetIsNearestSmallest ==
    \A k \in 1..Len(cblc) :
        targets[k] # 0 => NearestCanonical(targets[k], CurrentMax(cblc0[k]))

\* 18 is as far from 16 as from 20, and 16 is chosen.
C5_Witness ==
    /\ Len(cblc) = 1
    /\ cblc0[1].ppemX = 18 /\ cblc0[1].ppemY = 7
    /\ targets[1] = 16
    /\ pc = "done"

\* C6: a strike whose declared ppemX and ppemY are canonical keeps them, and a
\* second call leaves every strike's ppemX/ppemY as the first call left them.
C6_CanonicalKeptAndIdempotent ==
    /\ pc = "done" =>
         \A k \in 1..Len(cblc) :
            (cblc0[k].hasSize /\ cblc0[k].ppemX \in CanonicalSizes
                              /\ cblc0[k].ppemY \in CanonicalSizes) =>
                /\ cblc[k].ppemX = cblc0[k].ppemX
                /\ cblc[k].ppemY = cblc0[k].ppemY
    /\ (pc = "done" /\ run = 2) => Sizes(cblc) = sizes1

\* A second call has returned on a font whose size the first call rewrote.
C6_Witness ==
    /\ pc = "done" /\ run = 2
    /\ sizes0 = << <<TRUE, 137, 137>> >>
    /\ sizes1 = << <<TRUE, 128, 128>> >>
    /\ Sizes(cblc) = sizes1

\* An image with transparency, on the widest reading: an alpha channel (RGBA,
\* LA) or a palette with a transparency entry.
HasAlpha(image) ==
    image.mode \in {"RGBA", "LA"} \/ (image.mode = "P" /\ image.transp)

\* C7: the image data of every glyph counted as resampled decodes to an image
\* with an alpha channel, whatever the source's mode and whether or not the
\* source already had the target's dimensions.
C7_ResampledGlyphsHaveAlpha ==
    \A k \in 1..Len(cblc) : \A g \in 1..Len(outcomes[k]) :
        outcomes[k][g].outcome = "resized" =>
            HasAlpha(cbdt.strikeData[k][g].imageData)

\* C8: the image data of every glyph counted as resampled decodes to an image
\* of exactly target x target pixels.
C8_ResampledGlyphsHaveTargetSize ==
    \A k \in 1..Len(cblc) : \A g \in 1..Len(outcomes[k]) :
        outcomes[k][g].outcome = "resized" =>
            /\ cbdt.strikeData[k][g].imageData.dec
            /\ cbdt.strikeData[k][g].imageData.w = targets[k]
            /\ cbdt.strikeData[k][g].imageData.h = targets[k]

\* A non-square source and a source already of the target size, both counted
\* as resampled.
C8_Witness ==
    /\ pc = "done" /\ run = 1
    /\ Len(cblc) = 1 /\ targets[1] = 128
    /\ \E g \in 1..Len(outcomes[1]) :
          /\ outcomes[1][g].outcome = "resized"
          /\ Payload(cbdt0.strikeData[1][g]).w = 128
          /\ Payload(cbdt0.strikeData[1][g]).h = 100
    /\ \E g \in 1..Len(outcomes[1]) :
          /\ outcomes[1][g].outcome = "resized"
          /\ Payload(cbdt0.strikeData[1][g]).w = 128
          /\ Payload(cbdt0.strikeData[1][g]).h = 128

\* The strikes the call counted as modified.
CountedStrikes == {k \in 1..Len(cblc) : strikeLog[k] \in {"resized", "metadata"}}

\* C25: a strike for which neither the resampling nor the metadata-only update
\* succeeded, an exception while processing it included, has the size and the
\* metrics it had before the call and is not counted as modified, and every
\* strike after it is still processed.
C25_FailedStrikeIsUntouched ==
    (pc = "done" /\ run = 1 /\ {"CBDT", "CBLC"} \subseteq tables) =>
        /\ strikes_modified = Cardinality(CountedStrikes)
        /\ \A k \in 1..Len(cblc) :
              strikeLog[k] \in {"raised", "failed"} =>
                  /\ cblc[k] = cblc0[k]
                  /\ \A j \in (k + 1)..Len(cblc) : strikeLog[j] # "pending"

\* C28: a glyph entry whose payload the loop could read is skipped as too
\* small exactly when the payload is shorter than 10 bytes, and a payload of
\* 10 bytes or more is handed to the decoder.
C28_TooSmallMeansUnderTenBytes ==
    \A k \in 1..Len(outcomes) : \A g \in 1..Len(outcomes[k]) :
        LET entry == cbdt0.strikeData[k][g]
            payload == Payload(entry)
        IN (entry.decompOk /\ payload.len > 0) =>
              /\ outcomes[k][g].outcome = "tooSmall" <=> payload.len < 10
              /\ payload.len >= 10 => outcomes[k][g].opened

\* The glyph loop of lines 151-194 over the first n entries of the strike data,
\* in the order of the dictionary.
RECURSIVE InDictOrder(_, _, _)
InDictOrder(strike_data, new_size, n) ==
    IF n = 0 THEN [data |-> strike_data, resized |-> 0, skipped |-> 0]
    ELSE LET sofar == InDictOrder(strike_data, new_size, n - 1)
             step == ResizeEntry(sofar.data, n, new_size)
         IN [data |-> step.data,
             resized |-> sofar.resized + (IF step.outcome = "resized" THEN 1 ELSE 0),
             skipped |-> sofar.skipped + (IF step.outcome = "resized" THEN 0 ELSE 1)]

OutcomeCount(k, kinds) ==
    Cardinality({g \in 1..Len(outcomes[k]) : outcomes[k][g].outcome \in kinds})

-----------------------------------------------------------------------------
(* Properties of the character-map normalizer *)

\* The index, after line 155 inserted a subtable at index 1, of the subtable
\* that was at index k (both 1-based here).
Shifted(k) == IF k = 1 THEN 1 ELSE k + 1

BmpIndexes == {k \in 1..Len(cmapTables) : IsBmp(cmapTables[k])}

\* C9: with no (3,1) subtable but a (3,10) one, normalization adds exactly one
\* (3,1) subtable, whose mapping is the full-Unicode mapping restricted to
\* codepoints 0..0xFFFF, and the full-Unicode subtable still maps every
\* codepoint it mapped, to the same glyph.
C9_BmpIsRestrictionOfFull ==
    (cmapPc = "done" /\ ~HasWindowsUnicodeBmp(cmapIn) /\ UnicodeFullIndex(cmapIn) # 0) =>
        LET at == UnicodeFullIndex(cmapIn)
            full == cmapIn[at].cmap
        IN /\ Cardinality(BmpIndexes) = 1
           /\ Len(cmapTables) = Len(cmapIn) + 1
           /\ \A b \in BmpIndexes :
                 LET bmp == cmapTables[b].cmap IN
                 /\ \A c \in DOMAIN bmp :
                       c \in 0..65535 /\ c \in DOMAIN full /\ bmp[c] = full[c]
                 /\ \A c \in DOMAIN full : c <= 65535 => c \in DOMAIN bmp
           /\ IsFull(cmapTables[Shifted(at)])
           /\ \A c \in DOMAIN full :
                 /\ c \in DOMAIN cmapTables[Shifted(at)].cmap
                 /\ cmapTables[Shifted(at)].cmap[c] = full[c]

\* {0x41, 0x1F600}: the BMP subtable holds 0x41 only, the full one still both.
C9_Witness ==
    /\ cmapPc = "done"
    /\ cmapIn = <<Subtable(3, 10, 13, (65 :> "A") @@ (128512 :> "grin"))>>
    /\ Len(cmapTables) = 2
    /\ DOMAIN cmapTables[2].cmap = {65}
    /\ IsBmp(cmapTables[2])
    /\ DOMAIN cmapTables[1].cmap = {65, 128512}

\* C10: every codepoint-to-glyph pair of a subtable before normalization is in
\* a subtable of the same (platform, encoding) afterwards.
C10_NoMappingDiscarded ==
    cmapPc = "done" =>
        \A k \in 1..Len(cmapIn) : \A c \in DOMAIN cmapIn[k].cmap :
            \E j \in 1..Len(cmapTables) :
                /\ cmapTables[j].platformID = cmapIn[k].platformID
                /\ cmapTables[j].platEncID = cmapIn[k].platEncID
                /\ c \in DOMAIN cmapTables[j].cmap
                /\ cmapTables[j].cmap[c] = cmapIn[k].cmap[c]

\* C11: once the cmap has been normalized, a cmap that holds a (3,10) subtable
\* holds a (3,10) subtable of Format 12, whatever the font held before (a (3,1)
\* subtable included).
C11_FullSubtableHasFormat12 ==
    cmapPc = "done" =>
        ((\E k \in 1..Len(cmapTables) : IsFull(cmapTables[k])) =>
         (\E k \in 1..Len(cmapTables) :
             IsFull(cmapTables[k]) /\ cmapTables[k].format = 12))

\* The (platformID, platEncID) of each subtable of a list, in list order.
Kinds(cmap_tables) ==
    [k \in 1..Len(cmap_tables) |->
        <<cmap_tables[k].platformID, cmap_tables[k].platEncID>>]

RemoveAt(seq, k) == SubSeq(seq, 1, k - 1) \o SubSeq(seq, k + 1, Len(seq))

\* C23: the synthesized (3,1) subtable is stored immediately after a (3,10)
\* subtable, wherever the (3,10) subtable stood in the input, and the subtables
\* the font already had keep their relative order.
C23_BmpFollowsFullSubtable ==
    (cmapPc = "done" /\ ~HasWindowsUnicodeBmp(cmapIn) /\ UnicodeFullIndex(cmapIn) # 0) =>
        \E b \in BmpIndexes :
            /\ b > 1
            /\ IsFull(cmapTables[b - 1])
            /\ Kinds(RemoveAt(cmapTables, b)) = Kinds(cmapIn)

\* C24: when no (3,10) subtable of the input is Format 12, normalization
\* leaves a Format 12 (3,10) subtable, and the subtable at the position of
\* every (3,10) subtable of the input still carries that subtable's mapping
\* (the replaced one included), with one or with several (3,10) subtables.
C24_Format12CopyKeepsMappingAndPosition ==
    (/\ cmapPc = "done"
     /\ ~HasWindowsUnicodeBmp(cmapIn)
     /\ UnicodeFullIndex(cmapIn) # 0
     /\ \A k \in 1..Len(cmapIn) : IsFull(cmapIn[k]) => cmapIn[k].format # 12) =>
        /\ \E k \in 1..Len(cmapTables) :
              IsFull(cmapTables[k]) /\ cmapTables[k].format = 12
        /\ \A k \in 1..Len(cmapIn) :
              IsFull(cmapIn[k]) =>
                  /\ IsFull(cmapTables[Shifted(k)])
                  /\ cmapTables[Shifted(k)].cmap = cmapIn[k].cmap

-----------------------------------------------------------------------------
(* Properties of the metadata rewriters *)

\* What a name record says, apart from which object it is.
Content(record) ==
    <<record.nameID, record.platformID, record.platEncID, record.langID,
      record.string>>

NameKey(record) ==
    <<record.nameID, record.platformID, record.platEncID, record.langID>>

\* C12: after _update_font_names the name table holds exactly 10 x 3 = 30
\* records, none of them a record it held before, no two with the same
\* (nameID, platformID, platEncID, langID); a second call yields the same 30
\* records.
C12_NameTableIsTheThirtyNewRecords ==
    (nameCalls >= 1 /\ ~nameRaised) =>
        /\ Len(names) = 10 * 3
        /\ \A k \in 1..Len(names) : \A j \in 1..Len(names0) :
              names[k].obj # names0[j].obj
        /\ \A k \in 1..Len(names) : \A j \in 1..Len(names) :
              NameKey(names[k]) = NameKey(names[j]) => k = j
        /\ nameCalls >= 2 =>
              /\ Len(names) = Len(names1)
              /\ \A k \in 1..Len(names) : Content(names[k]) = Content(names1[k])

\* The rewriter has run twice on a table of two old records, one of which says
\* what a new record says.
C12_Witness ==
    /\ nameCalls = 2
    /\ ~nameRaised
    /\ Len(names0) = 2
    /\ \E j \in 1..Len(names0) : \E k \in 1..Len(names) :
          Content(names0[j]) = Content(names[k])
    /\ Len(names) = 30

\* C13: after _update_os2_table on a font with an OS/2 table, whatever
\* fsSelection was, fsSelection is 0xC0 = 192: bits 6 and 7 are set, so
\* (fsSelection & 0x80) != 0, and no other bit of the old value survives.
C13_FsSelectionIsRegularTypoMetrics ==
    (os2Calls >= 1 /\ "OS/2" \in tables) =>
        /\ os2.fsSelection = 192
        /\ Bit(os2.fsSelection, 7) # 0
        /\ \A b \in (0..15) \ {6, 7} : Bit(os2.fsSelection, b) = 0

\* The rewriter has run on a table whose fsSelection had ITALIC and BOLD set
\* and REGULAR and USE_TYPO_METRICS clear.
C13_Witness ==
    /\ os2Calls >= 1
    /\ "OS/2" \in tables
    /\ os20.fsSelection = 33
    /\ os2.fsSelection = 192

-----------------------------------------------------------------------------
(* Properties of the conversion pipeline *)

ConvOver == convPc \in {"ended", "exited"}

\* Position of a step in stepsRun (0: the step was not entered).
StepIndex(step) ==
    IF \E k \in 1..Len(stepsRun) : stepsRun[k] = step
    THEN CHOOSE k \in 1..Len(stepsRun) : stepsRun[k] = step
    ELSE 0

\* C14: for each table the pipeline rewrites (cmap, name, OS/2, head, post,
\* CBDT/CBLC), on a font that lacks it the step is a no-op that raises nothing,
\* and the conversion goes on to the save.
C14_AbsentTablesAreSkipped ==
    (loadOk /\ ConvOver) =>
        /\ convResult # "raised"
        /\ saveAttempts = 1
        /\ "cmap" \notin tables => cmapTables = cmapIn
        /\ "name" \notin tables => names = names0
        /\ "OS/2" \notin tables => os2 = os20
        /\ "head" \notin tables => head.macStyle = 1
        /\ "post" \notin tables => post.formatType = 2
        /\ ~({"CBDT", "CBLC"} \subseteq tables) => cblc = cblc0 /\ cbdt = cbdt0

\* C15: a load failure or a save failure ends the run: the load failure leaves
\* convert_apple_emoji_to_windows as the exception TTFont raised and no step
\* runs after it, the save failure as the return value False; neither operation
\* is tried a second time, and convert_command returns a non-zero exit code.
C15_LoadAndSaveFailuresAreFatal ==
    /\ loadAttempts <= 1
    /\ saveAttempts <= 1
    /\ (loadAttempts = 1 /\ ~loadOk) =>
          /\ stepsRun = <<"load">>
          /\ saveAttempts = 0
          /\ ConvOver
          /\ convResult = "raised"
          /\ convPc = "exited" => exitCode # 0
    /\ (saveAttempts = 1 /\ ~saveOk) =>
          /\ stepsRun[Len(stepsRun)] = "save"
          /\ ConvOver
          /\ convResult = "false"
          /\ convPc = "exited" => exitCode # 0

\* convert_command has returned after a conversion whose save raised.
C15_Witness ==
    /\ convPc = "exited"
    /\ loadOk
    /\ ~saveOk
    /\ saveAttempts = 1
    /\ convResult = "false"
    /\ exitCode = 1

\* C16: in every conversion whose load succeeded the save is attempted exactly
\* once, after the bitmap rewrite, whatever the bitmap rewrite returned, and
\* the return value of the conversion is the result of the save alone.
C16_SaveOnceAfterBitmapRewrite ==
    /\ saveAttempts <= 1
    /\ saveAttempts = 1 => convPc \notin {"bitmap", "bitmapRun"}
    /\ (loadOk /\ ConvOver) =>
          /\ saveAttempts = 1
          /\ StepIndex("save") = Len(stepsRun)
          /\ StepIndex("bitmap") < StepIndex("save")
          /\ convResult = SaveFont(saveOk, verifyOk)

\* a <= b for progress values.
AtMost(a, b) == a.num * b.den <= b.num * a.den

\* C29: over a conversion with a progress callback, each step value given to
\* the callback is at least the one before it, and every value lies between 0
\* and the total given with it, which is 10.
C29_ProgressNeverGoesBack ==
    \A k \in 1..Len(progressCalls) :
        /\ progressCalls[k].total = 10
        /\ AtMost(Ratio(0, 1), progressCalls[k].step)
        /\ AtMost(progressCalls[k].step, Ratio(progressCalls[k].total, 1))
        /\ k > 1 => AtMost(progressCalls[k - 1].step, progressCalls[k].step)

\* C30: the conversion returns true exactly when font.save wrote the output
\* file; when it returns false no output file was written, also when it is the
\* verification of the saved file that fails.
C30_TrueIffOutputWritten ==
    convResult \in {"true", "false"} =>
        (convResult = "true" <=> outputWritten)

-----------------------------------------------------------------------------
(* Properties of the diagnostics *)

\* C17: the diagnostics is read-only and total: whatever attributes the
\* strikes lack, it raises nothing, examines every strike in order and leaves
\* every field of the font as it was.
C17_DiagnosticsIsReadOnlyAndTotal ==
    /\ ~diagRaised
    /\ diagStrikes = diagStrikes0
    /\ diagCbdt = diagCbdt0
    /\ \A k \in 1..Len(diagReport) : diagReport[k].strike = k - 1
    /\ (diagPc = "done" /\ {"CBDT", "CBLC"} \subseteq tables) =>
          Len(diagReport) = Len(diagStrikes)

\* The diagnostics has finished a font of two strikes in which a strike lacks
\* every probed attribute and an exception was caught on the way.
C17_Witness ==
    /\ diagPc = "done"
    /\ Len(diagReport) = 2
    /\ diagCaught > 0
    /\ \E k \in 1..Len(diagStrikes) :
          diagStrikes[k] = DiagStrike(Absent, NoIst, Absent, Absent, Absent, NoBst)

IssuesOf(idx, kinds) ==
    {k \in 1..Len(directwrite_issues) :
        directwrite_issues[k].strike = idx /\ directwrite_issues[k].kind \in kinds}

\* C18: each attribute of a strike the diagnostics cannot determine (image
\* format, declared size, index sub-tables) is reported as such and puts an
\* issue for that strike into the summary list; a strike without a
\* determinable size always has a size issue in the summary.
C18_UndeterminedAttributesAreIssues ==
    diagPc = "done" =>
        \A k \in 1..Len(diagReport) :
            /\ diagReport[k].format = "cannot determine" =>
                  IssuesOf(k - 1, {"format unknown"}) # {}
            /\ diagReport[k].index = "missing" =>
                  IssuesOf(k - 1, {"index missing"}) # {}
            /\ diagReport[k].size = "cannot determine" =>
                  IssuesOf(k - 1, {"size unknown", "size unusual"}) # {}

\* The format the three probes of the claim give: the strike's imageFormat,
\* else the imageFormat of its first index sub-table that has one, else 17 or
\* 18 by the signature of the first glyph's raw payload.
ProbedFormat(strike, strike_data) ==
    IF strike.imageFormat.has THEN strike.imageFormat
    ELSE IF HasIndexSubTables(strike)
            /\ FirstSubTableWithFormat(strike.indexSubTables.subs) # 0
    THEN strike.indexSubTables.subs[
             FirstSubTableWithFormat(strike.indexSubTables.subs)].imageFormat
    ELSE IF strike_data.first = "png" THEN Attr(17)
    ELSE IF strike_data.first = "jpeg" THEN Attr(18)
    ELSE Absent

\* C27: for a strike whose first index sub-table gives a glyph range and whose
\* strike data is a dictionary of glyphs, the format reported is that of the
\* first probe that gives one (the strike's field, a sub-table's field, the
\* signature of the first glyph's payload), with exactly one format issue when
\* it is not 17 and none when it is 17.
C27_FormatByFirstProbe ==
    \A k \in 1..Len(diagReport) :
        LET strike == diagStrikes0[k]
        IN (/\ HasIndexSubTables(strike)
            /\ strike.indexSubTables.subs[1].hasGlyphRange
            /\ diagCbdt0.hasStrikeData
            /\ k <= Len(diagCbdt0.strikeData)
            /\ ~diagCbdt0.strikeData[k].hasData) =>
               LET probed == ProbedFormat(strike, diagCbdt0.strikeData[k])
                   formatIssues == IssuesOf(k - 1, {"format mismatch", "format unknown"})
               IN /\ diagReport[k].value = probed
                  /\ (probed.has /\ ~probed.none /\ probed.v # 17) =>
                        Cardinality(formatIssues) = 1
                  /\ (probed.has /\ ~probed.none /\ probed.v = 17) =>
                        formatIssues = {}

-----------------------------------------------------------------------------
(* Properties of TerminalCleanerV2 *)

\* C19: after any sequence of start_tracking, stop_tracking, clear_tracked,
\* clear_and_redraw and reset calls that ends with stop_tracking or reset, the
\* cleaner is not tracking, original_stdout is None and sys.stdout is the
\* stream that was installed before the first start_tracking.
C19_StopRestoresStdout ==
    lastCall \in {"stop_tracking", "reset"} =>
        /\ ~is_tracking
        /\ original_stdout = NoStream
        /\ sys_stdout = Stream(0)

\* C20: clear_tracked called while tracking ends with lines_printed = 0 and
\* tracking still active (is_tracking true, sys.stdout wrapped), on the normal
\* path and on the exception fallback path alike; called while not tracking or
\* with no tracked lines it prints nothing and changes no state.
C20_ClearTrackedKeepsTracking ==
    lastCall = "clear_tracked" =>
        /\ cleanerBefore.is_tracking =>
              /\ lines_printed = 0
              /\ is_tracking
              /\ sys_stdout.wrappers > 0
        /\ (~cleanerBefore.is_tracking \/ cleanerBefore.lines_printed = 0) =>
              /\ printed = 0
              /\ Current = cleanerBefore

\* C21: get_line_count() is the number of newlines written to stdout plus the
\* add_lines amounts accumulated while tracking since tracking last started
\* or the tracked lines were last cleared, each newline counted exactly once;
\* what is written or added while not tracking is not counted.
C21_LineCountIsWhatWasTracked == lines_printed = tracked

-----------------------------------------------------------------------------
(* Properties of TerminalCleaner *)

SavedBefore == IsPositionSaved(posBefore)

\* What clear() prints when it reaches the saved position of before the call.
ClearOutput ==
    <<MoveYX(posBefore.saved_y.v, posBefore.saved_x.v), ClearEos,
      MoveYX(posBefore.saved_y.v, posBefore.saved_x.v)>>

=============================================================================
